---- MODULE Spec2Model ----
(***************************************************************************)
(* A model of QuizStore (src/quiz_store.py): the in-memory quiz lifecycle  *)
(* store with creation, expiry, submission scoring, statistics and the     *)
(* cleanup sweep.                                                           *)
(*                                                                         *)
(* Time is the wall clock in seconds (time.time() and datetime.now() read  *)
(* the same clock).  Python floats are IEEE-754 doubles; they are modelled *)
(* bit-exactly as a 53-bit mantissa and a binary exponent, the mantissa    *)
(* held as a little-endian sequence of limbs because TLC's integers are    *)
(* 32 bits wide.                                                           *)
(***************************************************************************)
EXTENDS Integers, Sequences, FiniteSets, TLC

(***************************************************************************)
(* Natural numbers of arbitrary size: little-endian sequences of limbs in  *)
(* base 2^15, without leading (most significant) zero limbs; <<>> is 0.    *)
(***************************************************************************)
Base == 2^15

RECURSIVE Pow2(_)
Pow2(k) == IF k = 0 THEN 1 ELSE 2 * Pow2(k - 1)

RECURSIVE BNorm(_)
BNorm(a) ==
    IF a = <<>> THEN <<>>
    ELSE IF a[Len(a)] = 0 THEN BNorm(SubSeq(a, 1, Len(a) - 1))
    ELSE a

RECURSIVE BFromInt(_)
BFromInt(i) == IF i = 0 THEN <<>> ELSE <<i % Base>> \o BFromInt(i \div Base)

BLimb(a, i) == IF i <= Len(a) THEN a[i] ELSE 0

RECURSIVE BAddFrom(_, _, _, _)
BAddFrom(a, b, i, carry) ==
    IF i > Len(a) /\ i > Len(b)
    THEN (IF carry = 0 THEN <<>> ELSE <<carry>>)
    ELSE LET s == BLimb(a, i) + BLimb(b, i) + carry
         IN  <<s % Base>> \o BAddFrom(a, b, i + 1, s \div Base)

BAdd(a, b) == BAddFrom(a, b, 1, 0)

\* a - b for a >= b
RECURSIVE BSubFrom(_, _, _, _)
BSubFrom(a, b, i, borrow) ==
    IF i > Len(a) THEN <<>>
    ELSE LET d == BLimb(a, i) - BLimb(b, i) - borrow
         IN  IF d < 0 THEN <<d + Base>> \o BSubFrom(a, b, i + 1, 1)
                      ELSE <<d>> \o BSubFrom(a, b, i + 1, 0)

BSub(a, b) == BNorm(BSubFrom(a, b, 1, 0))

\* a * k for a small k (0 <= k < Base)
RECURSIVE BMulFrom(_, _, _, _)
BMulFrom(a, k, i, carry) ==
    IF i > Len(a)
    THEN (IF carry = 0 THEN <<>> ELSE <<carry>>)
    ELSE LET p == a[i] * k + carry
         IN  <<p % Base>> \o BMulFrom(a, k, i + 1, p \div Base)

BMulSmall(a, k) == BNorm(BMulFrom(a, k, 1, 0))

\* <<quotient, remainder>> of a by a small d (0 < d < Base), most significant
\* limb first
RECURSIVE BDivFrom(_, _, _, _)
BDivFrom(a, d, i, rem) ==
    IF i = 0 THEN <<<<>>, rem>>
    ELSE LET cur  == rem * Base + a[i]
             rest == BDivFrom(a, d, i - 1, cur % d)
         IN  <<Append(rest[1], cur \div d), rest[2]>>

BDivSmall(a, d) ==
    LET r == BDivFrom(a, d, Len(a), 0) IN <<BNorm(r[1]), r[2]>>

\* -1, 0, 1 as a < b, a = b, a > b
RECURSIVE BCmpFrom(_, _, _)
BCmpFrom(a, b, i) ==
    IF i = 0 THEN 0
    ELSE IF a[i] < b[i] THEN -1
    ELSE IF a[i] > b[i] THEN 1
    ELSE BCmpFrom(a, b, i - 1)

BCmp(a, b) ==
    IF Len(a) < Len(b) THEN -1
    ELSE IF Len(a) > Len(b) THEN 1
    ELSE BCmpFrom(a, b, Len(a))

RECURSIVE IntBitLen(_)
IntBitLen(i) == IF i = 0 THEN 0 ELSE 1 + IntBitLen(i \div 2)

LimbBits == IntBitLen(Base) - 1

BBitLen(a) ==
    IF a = <<>> THEN 0 ELSE (Len(a) - 1) * LimbBits + IntBitLen(a[Len(a)])

BIsOdd(a) == a # <<>> /\ a[1] % 2 = 1

\* a * 2^s
BShl(a, s) ==
    IF a = <<>> THEN <<>>
    ELSE [i \in 1..(s \div LimbBits) |-> 0] \o BMulSmall(a, Pow2(s % LimbBits))

\* floor(a / 2^t)
BShr(a, t) ==
    LET drop == t \div LimbBits
    IN  IF drop >= Len(a) THEN <<>>
        ELSE BDivSmall(SubSeq(a, drop + 1, Len(a)), Pow2(t % LimbBits))[1]

\* a mod 2^t
BLow(a, t) == BSub(a, BShl(BShr(a, t), t))

(***************************************************************************)
(* Python floats (IEEE-754 binary64, round to nearest, ties to even).      *)
(* A float is 0 or m * 2^e with m of exactly MantBits bits, so equal       *)
(* values have equal representations.  Only non-negative normal values     *)
(* occur (percentages and their sums).                                     *)
(***************************************************************************)
MantBits == 53

FZero == [m |-> <<>>, e |-> 0]

\* The double nearest to n / d * 2^e, for a natural n and a small d > 0.
FRound(n, d, e) ==
    IF n = <<>> THEN FZero
    ELSE LET need == MantBits + 1 + LimbBits
             s    == IF BBitLen(n) >= need THEN 0 ELSE need - BBitLen(n)
             qr   == BDivSmall(BShl(n, s), d)
             q    == qr[1]
             t    == BBitLen(q) - MantBits
             m0   == BShr(q, t)
             low  == BLow(q, t)
             c    == BCmp(low, BShl(<<1>>, t - 1))
             up   == c > 0 \/ (c = 0 /\ (qr[2] # 0 \/ BIsOdd(m0)))
             m1   == IF up THEN BAdd(m0, <<1>>) ELSE m0
         IN  IF BBitLen(m1) > MantBits
             THEN [m |-> BShr(m1, 1), e |-> e - s + t + 1]
             ELSE [m |-> m1, e |-> e - s + t]

\* i / j on ints (true division)
FIntDiv(i, j) == FRound(BFromInt(i), j, 0)

\* x * k and x / k for a float x and a small int k (k converts exactly)
FMulInt(x, k) == FRound(BMulSmall(x.m, k), 1, x.e)
FDivInt(x, k) == FRound(x.m, k, x.e)

\* x + y
FAdd(x, y) ==
    IF x.m = <<>> THEN y
    ELSE IF y.m = <<>> THEN x
    ELSE LET lo == IF x.e <= y.e THEN x.e ELSE y.e
         IN  FRound(BAdd(BShl(x.m, x.e - lo), BShl(y.m, y.e - lo)), 1, lo)

\* x < y
FLess(x, y) ==
    IF y.m = <<>> THEN FALSE
    ELSE IF x.m = <<>> THEN TRUE
    ELSE IF x.e # y.e THEN x.e < y.e
    ELSE BCmp(x.m, y.m) < 0

\* round(x, 1): the double nearest to the decimal with one fractional digit
\* nearest to the exact value of x (ties to the even digit)
FRound1(x) ==
    IF x.m = <<>> THEN FZero
    ELSE LET n10 == BMulSmall(x.m, 10)
         IN  IF x.e >= 0 THEN FRound(BShl(n10, x.e), 10, 0)
             ELSE LET t   == 0 - x.e
                      k0  == BShr(n10, t)
                      c   == BCmp(BLow(n10, t), BShl(<<1>>, t - 1))
                      k   == IF c > 0 \/ (c = 0 /\ BIsOdd(k0))
                             THEN BAdd(k0, <<1>>) ELSE k0
                  IN  FRound(k, 10, 0)

\* sum(xs): left to right from 0
RECURSIVE FSumFrom(_, _, _)
FSumFrom(xs, i, acc) ==
    IF i > Len(xs) THEN acc ELSE FSumFrom(xs, i + 1, FAdd(acc, xs[i]))

FSum(xs) == FSumFrom(xs, 1, FZero)

\* max(xs) and min(xs) of a non-empty list
RECURSIVE FMaxFrom(_, _, _)
FMaxFrom(xs, i, best) ==
    IF i > Len(xs) THEN best
    ELSE FMaxFrom(xs, i + 1, IF FLess(best, xs[i]) THEN xs[i] ELSE best)

FMax(xs) == FMaxFrom(xs, 2, xs[1])

RECURSIVE FMinFrom(_, _, _)
FMinFrom(xs, i, best) ==
    IF i > Len(xs) THEN best
    ELSE FMinFrom(xs, i + 1, IF FLess(xs[i], best) THEN xs[i] ELSE best)

FMin(xs) == FMinFrom(xs, 2, xs[1])

(***************************************************************************)
(* Python values: Optional results, dicts as functions on their key set,   *)
(* str.lower() on the words the model uses.                                *)
(***************************************************************************)
None == [some |-> FALSE]
Some(v) == [some |-> TRUE, val |-> v]

EmptyDict == [k \in {} |-> None]
DictPut(d, k, v) == [x \in DOMAIN d \cup {k} |-> IF x = k THEN v ELSE d[x]]
DictPop(d, k) == [x \in DOMAIN d \ {k} |-> d[x]]
DictGet(d, k) == IF k \in DOMAIN d THEN Some(d[k]) ELSE None

Lower(w) ==
    CASE w \in {"paris", "Paris", "PARIS"} -> "paris"
      [] w \in {"rome", "Rome", "ROME"} -> "rome"
      [] w \in {"oslo", "Oslo", "OSLO"} -> "oslo"
      [] w \in {"ulm", "Ulm"} -> "ulm"
      [] w \in {"pau", "Pau"} -> "pau"
      [] w \in {"have", "Have"} -> "have"
      [] w \in {"none of the above", "None of the above"} -> "none of the above"
      [] w \in {"all of the above", "All of the above"} -> "all of the above"
      [] w \in {"hosts", "Hosts"} -> "hosts"
      [] w \in {"large", "Large"} -> "large"
      [] w \in {"museums", "Museums"} -> "museums"
      [] w \in {"ruins", "Ruins"} -> "ruins"
      [] w \in {"answer", "Answer"} -> "answer"
      [] w \in {"not paris", "Not Paris"} -> "not paris"
      [] w \in {"not rome", "Not Rome"} -> "not rome"
      [] w \in {"not none of the above", "Not none of the above"} ->
             "not none of the above"
      [] w \in {"not ", "Not "} -> "not "
      [] w \in {"the", "The"} -> "the"
      [] OTHER -> w

(***************************************************************************)
(* Inputs and bounds.                                                      *)
(***************************************************************************)
\* str(uuid.uuid4())[:8].upper(): eight hex digits; two of the 16^8 values
Codes == {"1A2B3C4D", "9F8E7D6C"}

Q1 == [question |-> "The capital of France is _____", correct_answer |-> "Paris"]
Q2 == [question |-> "The capital of Italy is _____", correct_answer |-> "rome"]
Q3 == [question |-> "The capital of Norway is _____", correct_answer |-> "oslo"]

\* create_quiz arguments: questions, quiz_type, created_by
QuizInputs == {<<<<>>, "mcq", "teacher">>,
               <<<<Q1>>, "fill_blanks", "alice">>}
AnswerLists == {<<>>, <<"PARIS">>}
Students == {"Bob"}

ExpiryTime == 86400         \* timedelta(hours=24), in seconds
CleanupInterval == 3600     \* _cleanup_interval
\* the clock readings at which calls are made: around the sweep interval and
\* around the expiry of quizzes created at the first readings
Instants == {0, CleanupInterval, ExpiryTime - CleanupInterval, ExpiryTime,
             ExpiryTime + CleanupInterval}

MaxSubs == 1                \* submissions stored

\* the inputs of the scoring runs: a quiz of three questions (and one of none)
\* answered with 3, 2 and 0 correct answers and with too few answers
ScoreInputs == {<<<<>>, "mcq", "teacher">>,
                <<<<Q1, Q2, Q3>>, "fill_blanks", "alice">>}
ScoreAnswers == {<<"paris", "rome", "oslo">>, <<"PARIS", "Rome", "paris">>,
                 <<"oslo", "oslo", "paris">>, <<"paris">>}
MaxScoreSubs == 5           \* submissions stored in a scoring run

\* the threads that call submit_quiz concurrently
NThreads == 2
Threads == 1..NThreads

(***************************************************************************)
(* The store (QuizStore.__init__) and the clock.                           *)
(***************************************************************************)
VARIABLES
    quizzes,            \* self.quizzes: code -> quiz dict
    submissions,        \* self.submissions: code -> list of submissions
    expired_quizzes,    \* self.expired_quizzes: code -> quiz dict or None
    last_cleanup,       \* self._last_cleanup
    now,                \* the wall clock, seconds since construction
    sweeps,             \* the clock readings at which create_quiz ran the sweep
    threads,            \* each thread's position in submit_quiz and its locals
    detached,           \* code -> quiz dict removed from self.quizzes while a
                        \* thread inside submit_quiz still refers to it
    gen,                \* the question generator: the call in progress, its
                        \* locals and what it returned or raised
    res                 \* the last call: its name, the code passed or returned,
                        \* the exception raised ("" for none), the value returned

vars == <<quizzes, submissions, expired_quizzes, last_cleanup, now, sweeps,
          threads, detached, gen, res>>

Call(op, code, raised, ret) ==
    [op |-> op, code |-> code, raised |-> raised, ret |-> ret]

\* a thread outside submit_quiz, its locals unset
Idle == [pc |-> "idle", code |-> "", student_name |-> "", answers |-> <<>>,
         timestamp |-> 0, score_percentage |-> FZero, attempts |-> 0,
         average |-> FZero, factor |-> 0, divisor |-> 0, raised |-> ""]

\* no generator call in progress, its locals unset
GenIdle == [pc |-> "idle", fn |-> "", quiz_type |-> "", sentences |-> <<>>,
            num_questions |-> 0, i |-> 0, used_answers |-> {},
            questions |-> <<>>, word |-> "", tag |-> "", options |-> <<>>,
            futures |-> <<>>, collected |-> {}, text |-> <<>>, raised |-> "",
            ret |-> None]

Init ==
    /\ quizzes = EmptyDict
    /\ submissions = EmptyDict
    /\ expired_quizzes = EmptyDict
    /\ last_cleanup = 0
    /\ now = 0
    /\ sweeps = <<>>
    /\ threads = [t \in Threads |-> Idle]
    /\ detached = EmptyDict
    /\ gen = GenIdle
    /\ res = Call("__init__", "", "", None)

\* time passes between calls: the clock reads t at the next call
Tick(t) ==
    /\ t > now
    /\ now' = t
    /\ res' = Call("sleep", "", "", None)
    /\ UNCHANGED <<quizzes, submissions, expired_quizzes, last_cleanup, sweeps,
                   threads, detached, gen>>

(***************************************************************************)
(* cleanup_expired_quizzes                                                 *)
(***************************************************************************)
\* a sweep that takes one expired quiz per run
ExpiredCodes_OnePerRun(qz, t) ==
    LET expired == {c \in DOMAIN qz : t >= qz[c].expires_at}
    IN  IF expired = {} THEN {} ELSE {CHOOSE c \in expired : TRUE}

ExpiredCodes(qz, t) == {c \in DOMAIN qz : t >= qz[c].expires_at}

\* the loop over expired_codes; st is <<quizzes, submissions, expired_quizzes>>
RECURSIVE CleanupLoop(_, _)
CleanupLoop(st, codes) ==
    IF codes = {} THEN st
    ELSE LET code == CHOOSE c \in codes : TRUE
             qz   == DictPop(st[1], code)
             sb   == DictPop(st[2], code)
             ex   == DictPut(st[3], code, DictGet(qz, code))
         IN  CleanupLoop(<<qz, sb, ex>>, codes \ {code})

Cleanup(st, t) == CleanupLoop(st, ExpiredCodes(st[1], t))

\* the codes whose quiz dict a thread inside submit_quiz refers to
InUse == {threads[t].code : t \in {u \in Threads : threads[u].pc \notin {"idle", "done"}}}

\* a dict popped from the store lives on while a thread refers to it
Detach(qz) ==
    [c \in DOMAIN detached \cup ((DOMAIN quizzes \ DOMAIN qz) \cap InUse) |->
        IF c \in DOMAIN detached THEN detached[c] ELSE quizzes[c]]

CleanupExpiredQuizzes ==
    LET st == Cleanup(<<quizzes, submissions, expired_quizzes>>, now)
    IN  /\ quizzes' = st[1]
        /\ detached' = Detach(st[1])
        /\ submissions' = st[2]
        /\ expired_quizzes' = st[3]
        /\ last_cleanup' = now
        /\ res' = Call("cleanup_expired_quizzes", "", "", None)
        /\ UNCHANGED <<now, sweeps, threads, gen>>

(***************************************************************************)
(* create_quiz                                                             *)
(***************************************************************************)
\* the sweep already due when exactly one interval has elapsed
SweepDue_AtInterval(t, last) == t - last >= CleanupInterval

SweepDue(t, last) == t - last > CleanupInterval

NewQuiz(questions, quiz_type, created_by, t) ==
    [questions |-> questions, type |-> quiz_type, created_by |-> created_by,
     submissions |-> <<>>, created_at |-> t, expires_at |-> t + ExpiryTime,
     total_attempts |-> 0, average_score |-> FZero]

\* quiz_code is what uuid4 returns: any code, in the store or not; the result
\* records next to the returned code whether the sweep ran
CreateQuiz(questions, quiz_type, created_by, quiz_code) ==
    LET sweep == SweepDue(now, last_cleanup)
        st    == IF sweep THEN Cleanup(<<quizzes, submissions, expired_quizzes>>, now)
                 ELSE <<quizzes, submissions, expired_quizzes>>
        quiz  == NewQuiz(questions, quiz_type, created_by, now)
    IN  /\ quizzes' = DictPut(st[1], quiz_code, quiz)
        /\ submissions' = st[2]
        /\ expired_quizzes' = st[3]
        /\ last_cleanup' = IF sweep THEN now ELSE last_cleanup
        /\ res' = Call("create_quiz", quiz_code, "",
                       Some([code |-> quiz_code, swept |-> sweep]))
        /\ sweeps' = IF sweep THEN Append(sweeps, now) ELSE sweeps
        /\ detached' = Detach(st[1])
        /\ UNCHANGED <<now, threads, gen>>

(***************************************************************************)
(* get_quiz, get_expired_quiz: reads of the store                          *)
(***************************************************************************)
\* a quiz still retrievable at the very instant it expires
IsActive_AtExpiry(quiz, t) == t <= quiz.expires_at

IsActive(quiz, t) == t < quiz.expires_at

Lookup(qz, quiz_code, t) ==
    IF quiz_code \in DOMAIN qz /\ IsActive(qz[quiz_code], t)
    THEN Some(qz[quiz_code]) ELSE None

\* get_quiz(quiz_code) called in the current state
GetQuiz(quiz_code) == Lookup(quizzes, quiz_code, now)

\* dict.get: the stored value (which may itself be None), None for no key
LookupExpired(ex, quiz_code) ==
    IF quiz_code \in DOMAIN ex THEN ex[quiz_code] ELSE None

\* get_expired_quiz(quiz_code) called in the current state
GetExpiredQuiz(quiz_code) == LookupExpired(expired_quizzes, quiz_code)

(***************************************************************************)
(* submit_quiz                                                             *)
(***************************************************************************)
\* only a surplus of answers refused
CountMismatch_Surplus(questions, answers) == Len(answers) > Len(questions)

CountMismatch(questions, answers) == Len(answers) # Len(questions)

IsCorrect(q, a) == Lower(a) = Lower(q.correct_answer)

\* q['correct_answer'] of a question dict that has no such key
MissingAnswerKey(questions) ==
    \E i \in 1..Len(questions) : "correct_answer" \notin DOMAIN questions[i]

\* the pairs of zip(questions, answers) that match
CorrectCount(questions, answers) ==
    LET n == IF Len(questions) < Len(answers) THEN Len(questions) ELSE Len(answers)
    IN  Cardinality({i \in 1..n : IsCorrect(questions[i], answers[i])})

ScorePercentage(correct_count, total) == FMulInt(FIntDiv(correct_count, total), 100)

\* one entry per pair of zip(questions, answers)
Feedback(questions, answers) ==
    [i \in 1..(IF Len(questions) < Len(answers) THEN Len(questions) ELSE Len(answers)) |->
        [question_num |-> i,
         correct |-> IsCorrect(questions[i], answers[i]),
         student_answer |-> answers[i],
         correct_answer |-> questions[i].correct_answer]]

\* the mean of the old average and the new score
NewAverage_Halved(average_score, total_attempts, score_percentage) ==
    FDivInt(FAdd(average_score, score_percentage), 2)

\* the running mean, total_attempts already incremented
NewAverage(average_score, total_attempts, score_percentage) ==
    FDivInt(FAdd(FMulInt(average_score, total_attempts - 1), score_percentage),
            total_attempts)

Submission(student_name, answers, t) ==
    [student_name |-> student_name, answers |-> answers, timestamp |-> t]

AppendSubmission(sb, quiz_code, submission) ==
    LET sb1 == IF quiz_code \notin DOMAIN sb THEN DictPut(sb, quiz_code, <<>>) ELSE sb
    IN  [sb1 EXCEPT ![quiz_code] = Append(@, submission)]

SubmitQuiz(quiz_code, student_name, answers) ==
    LET found == Lookup(quizzes, quiz_code, now)
    IN  IF ~found.some
        THEN /\ res' = Call("submit_quiz", quiz_code,
                            "ValueError: Quiz not found", None)
             /\ UNCHANGED <<quizzes, submissions, expired_quizzes, last_cleanup,
                            now, sweeps, threads, detached, gen>>
        ELSE LET quiz       == found.val
                 submission == Submission(student_name, answers, now)
                 quiz1      == [quiz EXCEPT !.submissions = Append(@, submission)]
                 questions  == quiz.questions
             IN  /\ submissions' = AppendSubmission(submissions, quiz_code, submission)
                 /\ UNCHANGED <<expired_quizzes, last_cleanup, now, sweeps, threads,
                                detached, gen>>
                 /\ IF CountMismatch(questions, answers)
                    THEN /\ quizzes' = [quizzes EXCEPT ![quiz_code] = quiz1]
                         /\ res' = Call("submit_quiz", quiz_code,
                                "ValueError: Number of answers does not match number of questions",
                                None)
                    ELSE IF MissingAnswerKey(questions)
                    THEN /\ quizzes' = [quizzes EXCEPT ![quiz_code] = quiz1]
                         /\ res' = Call("submit_quiz", quiz_code,
                                        "KeyError: 'correct_answer'", None)
                    ELSE IF Len(questions) = 0
                    THEN /\ quizzes' = [quizzes EXCEPT ![quiz_code] = quiz1]
                         /\ res' = Call("submit_quiz", quiz_code,
                                        "ZeroDivisionError", None)
                    ELSE LET correct_count    == CorrectCount(questions, answers)
                             score_percentage == ScorePercentage(correct_count, Len(questions))
                             attempts         == quiz.total_attempts + 1
                             response ==
                                 [student_name |-> student_name,
                                  submission_time |-> submission.timestamp,
                                  score |-> correct_count,
                                  score_percentage |-> score_percentage,
                                  total_questions |-> Len(questions),
                                  answers |-> answers,
                                  feedback |-> Feedback(questions, answers)]
                         IN  /\ quizzes' = [quizzes EXCEPT ![quiz_code] =
                                    [quiz1 EXCEPT
                                       !.total_attempts = attempts,
                                       !.average_score =
                                           NewAverage(quiz.average_score, attempts,
                                                      score_percentage)]]
                             /\ res' = Call("submit_quiz", quiz_code, "",
                                            Some(response))

(***************************************************************************)
(* get_quiz_responses, get_quiz_stats: reads of the store                  *)
(***************************************************************************)
Responses(sb, quiz_code) == IF quiz_code \in DOMAIN sb THEN sb[quiz_code] ELSE <<>>

\* get_quiz_responses(quiz_code) called in the current state
GetQuizResponses(quiz_code) == Responses(submissions, quiz_code)

\* the scores list built by the loop over the stored submissions
StatScores(quiz, subs) ==
    [i \in 1..Len(subs) |->
        ScorePercentage(CorrectCount(quiz.questions, subs[i].answers),
                        Len(quiz.questions))]

StatDetails(quiz, subs) ==
    [i \in 1..Len(subs) |->
        [student_name |-> subs[i].student_name,
         score |-> CorrectCount(quiz.questions, subs[i].answers),
         total |-> Len(quiz.questions),
         percentage |-> FRound1(StatScores(quiz, subs)[i]),
         timestamp |-> subs[i].timestamp]]

StatAverage(scores) == FRound1(FDivInt(FSum(scores), Len(scores)))
StatHighest(scores) == FRound1(FMax(scores))
StatLowest(scores) == FRound1(FMin(scores))

\* <<raised, returned>>
Stats(qz, sb, quiz_code, t) ==
    LET found == Lookup(qz, quiz_code, t)
        subs  == Responses(sb, quiz_code)
    IN  IF ~found.some THEN <<"", None>>
        ELSE IF Len(subs) = 0
        THEN <<"", Some([total_attempts |-> 0, average_score |-> FZero,
                         highest_score |-> FZero, lowest_score |-> FZero,
                         submissions |-> <<>>])>>
        ELSE IF Len(found.val.questions) = 0 THEN <<"ZeroDivisionError", None>>
        ELSE LET scores == StatScores(found.val, subs)
             IN  <<"", Some([total_attempts |-> Len(subs),
                             average_score |-> StatAverage(scores),
                             highest_score |-> StatHighest(scores),
                             lowest_score |-> StatLowest(scores),
                             submissions |-> StatDetails(found.val, subs)])>>

\* get_quiz_stats(quiz_code) called in the current state
GetQuizStats(quiz_code) == Stats(quizzes, submissions, quiz_code, now)

(***************************************************************************)
(* The store under sequential calls.                                       *)
(***************************************************************************)
RECURSIVE SumLen(_, _)
SumLen(d, keys) ==
    IF keys = {} THEN 0
    ELSE LET k == CHOOSE x \in keys : TRUE IN Len(d[k]) + SumLen(d, keys \ {k})

\* the submissions the store holds
StoredTotal == SumLen(submissions, DOMAIN submissions)

Next ==
    \/ \E t \in Instants : Tick(t)
    \/ \E k \in QuizInputs, c \in Codes : CreateQuiz(k[1], k[2], k[3], c)
    \/ \E c \in Codes, s \in Students, a \in AnswerLists :
           /\ StoredTotal < MaxSubs \/ ~GetQuiz(c).some
           /\ SubmitQuiz(c, s, a)
    \/ CleanupExpiredQuizzes

Spec == Init /\ [][Next]_vars

(***************************************************************************)
(* Scoring runs: one quiz, created once, and submissions to it with the    *)
(* clock standing still.                                                   *)
(***************************************************************************)
ScoreNext ==
    \/ \E k \in ScoreInputs, c \in Codes :
           /\ quizzes = EmptyDict
           /\ CreateQuiz(k[1], k[2], k[3], c)
    \/ \E c \in Codes, s \in Students, a \in ScoreAnswers :
           /\ StoredTotal < MaxScoreSubs
           /\ SubmitQuiz(c, s, a)

SpecScore == Init /\ [][ScoreNext]_vars

(***************************************************************************)
(* Scoring of generated questions: a quiz made of questions in the shapes  *)
(* the generator returns, answered with option indices and with words.     *)
(***************************************************************************)
\* a question as process_sentence returns it
QSentence == [question |-> <<"_____", "Ulm", "Pau", "have">>,
              options |-> <<"Ulm", "Paris", "object", "Pau">>, correct |-> 1,
              correct_answer |-> "Paris", type |-> "mcq"]
\* questions as the three branches of generate_quiz return them
QMcq == [question |-> <<"_____", "Ulm", "Pau", "have">>,
         options |-> <<"Ulm", "Paris", "object", "Pau">>, correct |-> 1,
         type |-> "mcq"]
QTrueFalse == [question |-> <<"Rome", "never", "Ulm">>, type |-> "true_false",
               correct |-> 1]
QFillBlanks == [question |-> <<"_____", "Ulm", "Pau", "have">>,
                type |-> "fill_blanks", options |-> <<"Paris">>, correct |-> 0]

RuleInputs == {<<<<QSentence>>, "mcq", "teacher">>,
               <<<<QMcq, QTrueFalse, QFillBlanks>>, "mcq", "teacher">>}
RuleAnswers == {<<"1">>, <<"paris">>, <<"1", "1", "PARIS">>, <<"0", "0", "rome">>}

RuleNext ==
    \/ \E k \in RuleInputs, c \in Codes :
           /\ quizzes = EmptyDict
           /\ CreateQuiz(k[1], k[2], k[3], c)
    \/ \E c \in Codes, s \in Students, a \in RuleAnswers :
           /\ StoredTotal < MaxScoreSubs
           /\ SubmitQuiz(c, s, a)

SpecRule == Init /\ [][RuleNext]_vars

(***************************************************************************)
(* submit_quiz called from several threads on one store.  The store has no *)
(* lock, so a thread may be preempted between any two reads or writes of   *)
(* the shared dicts; each action below is one such read or write with the  *)
(* local computation that follows it.                                      *)
(***************************************************************************)
At(t, pc) == threads[t].pc = pc

Goto(t, pc) == threads' = [threads EXCEPT ![t].pc = pc]

Raise(t, error) == threads' = [threads EXCEPT ![t].pc = "done", ![t].raised = error]

StoreFixed == UNCHANGED <<expired_quizzes, last_cleanup, now, sweeps, gen, res>>

\* the dict the thread's local `quiz` refers to: in the store, or removed from
\* it by a sweep since the lookup (no code is drawn twice while threads run)
ThreadQuiz(t) ==
    IF threads[t].code \in DOMAIN detached
    THEN detached[threads[t].code] ELSE quizzes[threads[t].code]

\* a write to that dict
SetQuiz(t, quiz) ==
    IF threads[t].code \in DOMAIN detached
    THEN /\ detached' = [detached EXCEPT ![threads[t].code] = quiz]
         /\ UNCHANGED quizzes
    ELSE /\ quizzes' = [quizzes EXCEPT ![threads[t].code] = quiz]
         /\ UNCHANGED detached

\* lines 67-75: quiz = self.get_quiz(quiz_code), the submission dict
SubmitLookup(t, quiz_code, student_name, answers) ==
    /\ At(t, "idle")
    /\ IF Lookup(quizzes, quiz_code, now).some
       THEN threads' = [threads EXCEPT ![t].pc = "check_list",
                                       ![t].code = quiz_code,
                                       ![t].student_name = student_name,
                                       ![t].answers = answers,
                                       ![t].timestamp = now]
       ELSE threads' = [threads EXCEPT ![t].pc = "done",
                                       ![t].code = quiz_code,
                                       ![t].raised = "ValueError: Quiz not found"]
    /\ UNCHANGED <<quizzes, submissions, detached>>
    /\ StoreFixed

ThreadSubmission(t) ==
    Submission(threads[t].student_name, threads[t].answers, threads[t].timestamp)

\* line 77: if quiz_code not in self.submissions
SubmitCheckList(t) ==
    /\ At(t, "check_list")
    /\ Goto(t, IF threads[t].code \notin DOMAIN submissions
               THEN "init_list" ELSE "append_list")
    /\ UNCHANGED <<quizzes, submissions, detached>>
    /\ StoreFixed

\* line 78: self.submissions[quiz_code] = []
SubmitInitList(t) ==
    /\ At(t, "init_list")
    /\ submissions' = DictPut(submissions, threads[t].code, <<>>)
    /\ Goto(t, "append_list")
    /\ UNCHANGED <<quizzes, detached>>
    /\ StoreFixed

\* line 80: self.submissions[quiz_code].append(submission); the subscript
\* raises KeyError when a sweep has popped the list since line 77
SubmitAppendList(t) ==
    /\ At(t, "append_list")
    /\ IF threads[t].code \in DOMAIN submissions
       THEN /\ submissions' = [submissions EXCEPT ![threads[t].code] =
                                   Append(@, ThreadSubmission(t))]
            /\ Goto(t, "append_quiz")
       ELSE /\ Raise(t, "KeyError")
            /\ UNCHANGED submissions
    /\ UNCHANGED <<quizzes, detached>>
    /\ StoreFixed

\* line 81: quiz['submissions'].append(submission)
SubmitAppendQuiz(t) ==
    /\ At(t, "append_quiz")
    /\ SetQuiz(t, [ThreadQuiz(t) EXCEPT !.submissions =
                                          Append(@, ThreadSubmission(t))])
    /\ Goto(t, "score")
    /\ UNCHANGED submissions
    /\ StoreFixed

\* lines 84-117: the length check, the score and the response, on locals and
\* on the questions, which no call changes
SubmitScore(t) ==
    LET questions == ThreadQuiz(t).questions
        answers   == threads[t].answers
    IN  /\ At(t, "score")
        /\ IF CountMismatch(questions, answers)
           THEN Raise(t, "ValueError: Number of answers does not match number of questions")
           ELSE IF MissingAnswerKey(questions)
           THEN Raise(t, "KeyError: 'correct_answer'")
           ELSE IF Len(questions) = 0
           THEN Raise(t, "ZeroDivisionError")
           ELSE threads' = [threads EXCEPT
                    ![t].pc = "read_attempts",
                    ![t].score_percentage =
                        ScorePercentage(CorrectCount(questions, answers),
                                        Len(questions))]
        /\ UNCHANGED <<quizzes, submissions, detached>>
        /\ StoreFixed

\* line 120, quiz['total_attempts'] += 1: the read
SubmitReadAttempts(t) ==
    /\ At(t, "read_attempts")
    /\ threads' = [threads EXCEPT ![t].pc = "write_attempts",
                                   ![t].attempts = ThreadQuiz(t).total_attempts]
    /\ UNCHANGED <<quizzes, submissions, detached>>
    /\ StoreFixed

\* line 120: the write
SubmitWriteAttempts(t) ==
    /\ At(t, "write_attempts")
    /\ SetQuiz(t, [ThreadQuiz(t) EXCEPT !.total_attempts = threads[t].attempts + 1])
    /\ Goto(t, "read_average")
    /\ UNCHANGED submissions
    /\ StoreFixed

\* line 122: the read of quiz['average_score']
SubmitReadAverage(t) ==
    /\ At(t, "read_average")
    /\ threads' = [threads EXCEPT ![t].pc = "read_factor",
                                   ![t].average = ThreadQuiz(t).average_score]
    /\ UNCHANGED <<quizzes, submissions, detached>>
    /\ StoreFixed

\* line 122: the read of quiz['total_attempts'] in (total_attempts - 1)
SubmitReadFactor(t) ==
    /\ At(t, "read_factor")
    /\ threads' = [threads EXCEPT ![t].pc = "read_divisor",
                                   ![t].factor = ThreadQuiz(t).total_attempts]
    /\ UNCHANGED <<quizzes, submissions, detached>>
    /\ StoreFixed

\* line 124: the read of quiz['total_attempts'], the divisor
SubmitReadDivisor(t) ==
    /\ At(t, "read_divisor")
    /\ threads' = [threads EXCEPT ![t].pc = "write_average",
                                   ![t].divisor = ThreadQuiz(t).total_attempts]
    /\ UNCHANGED <<quizzes, submissions, detached>>
    /\ StoreFixed

\* lines 121-126: the write of quiz['average_score'], return response
SubmitWriteAverage(t) ==
    /\ At(t, "write_average")
    /\ SetQuiz(t, [ThreadQuiz(t) EXCEPT !.average_score =
                       FDivInt(FAdd(FMulInt(threads[t].average, threads[t].factor - 1),
                                    threads[t].score_percentage),
                               threads[t].divisor)])
    /\ Goto(t, "done")
    /\ UNCHANGED submissions
    /\ StoreFixed

ConcNext ==
    \/ \E k \in QuizInputs, c \in Codes :
           /\ quizzes = EmptyDict
           /\ \A t \in Threads : At(t, "idle")
           /\ CreateQuiz(k[1], k[2], k[3], c)
    \/ \E t \in Threads, c \in Codes, s \in Students, a \in AnswerLists :
           SubmitLookup(t, c, s, a)
    \/ \E t \in Threads : SubmitCheckList(t)
    \/ \E t \in Threads : SubmitInitList(t)
    \/ \E t \in Threads : SubmitAppendList(t)
    \/ \E t \in Threads : SubmitAppendQuiz(t)
    \/ \E t \in Threads : SubmitScore(t)
    \/ \E t \in Threads : SubmitReadAttempts(t)
    \/ \E t \in Threads : SubmitWriteAttempts(t)
    \/ \E t \in Threads : SubmitReadAverage(t)
    \/ \E t \in Threads : SubmitReadFactor(t)
    \/ \E t \in Threads : SubmitReadDivisor(t)
    \/ \E t \in Threads : SubmitWriteAverage(t)

SpecConc == Init /\ [][ConcNext]_vars

(***************************************************************************)
(* submit_quiz called from several threads while the quiz expires and the  *)
(* sweep runs.  The sweep is taken as one step: it is one of the ways the  *)
(* threads can interleave with it.                                         *)
(***************************************************************************)
SweepNext ==
    \/ \E k \in QuizInputs, c \in Codes :
           /\ quizzes = EmptyDict
           /\ expired_quizzes = EmptyDict
           /\ \A t \in Threads : At(t, "idle")
           /\ CreateQuiz(k[1], k[2], k[3], c)
    \/ Tick(ExpiryTime)
    \/ CleanupExpiredQuizzes
    \/ \E t \in Threads, c \in Codes, s \in Students, a \in AnswerLists :
           SubmitLookup(t, c, s, a)
    \/ \E t \in Threads : SubmitCheckList(t)
    \/ \E t \in Threads : SubmitInitList(t)
    \/ \E t \in Threads : SubmitAppendList(t)
    \/ \E t \in Threads : SubmitAppendQuiz(t)
    \/ \E t \in Threads : SubmitScore(t)
    \/ \E t \in Threads : SubmitReadAttempts(t)
    \/ \E t \in Threads : SubmitWriteAttempts(t)
    \/ \E t \in Threads : SubmitReadAverage(t)
    \/ \E t \in Threads : SubmitReadFactor(t)
    \/ \E t \in Threads : SubmitReadDivisor(t)
    \/ \E t \in Threads : SubmitWriteAverage(t)

SpecSweep == Init /\ [][SweepNext]_vars

(***************************************************************************)
(* The question generator (quiz_generator.py).  sent_tokenize,             *)
(* word_tokenize and pos_tag are NLTK's: a text is taken as they return    *)
(* it, a sequence of sentences, each a sequence of tagged words.           *)
(***************************************************************************)
Tok(w, t) == [word |-> w, tag |-> t]

\* "Paris, Ulm and Pau have ..." with either spelling of the first word,
\* "Rome, Ulm, Ulm", "Oslo, Paris", and a sentence without a usable word
SParis == <<Tok("Paris", "NNP"), Tok("Ulm", "NNP"), Tok("Pau", "NNP"),
            Tok("have", "VBP")>>
Sparis == <<Tok("paris", "NNP"), Tok("Ulm", "NNP"), Tok("Pau", "NNP"),
            Tok("have", "VBP")>>
SRome == <<Tok("Rome", "NNP"), Tok("Ulm", "NNP"), Tok("Ulm", "NNP")>>
SOslo == <<Tok("Oslo", "NNP"), Tok("Ulm", "NNP"), Tok("Paris", "NNP"),
           Tok("Pau", "NNP")>>
SNone == <<Tok("the", "DT"), Tok("Ulm", "NNP"), Tok("have", "VBP")>>
\* "Rome hosts large ruins, large ..."
SLarge == <<Tok("Rome", "NNP"), Tok("hosts", "VBZ"), Tok("large", "JJ"),
            Tok("ruins", "NNS"), Tok("large", "JJ")>>

\* the words of stopwords.words('english') that the inputs use
StopWords == {"the", "and", "have"}

\* tag[:2] of a Penn Treebank tag
TagPrefix(tag) ==
    CASE tag \in {"NN", "NNS", "NNP", "NNPS"} -> "NN"
      [] tag \in {"VB", "VBD", "VBG", "VBN", "VBP", "VBZ"} -> "VB"
      [] tag \in {"JJ", "JJR", "JJS"} -> "JJ"
      [] tag \in {"RB", "RBR", "RBS"} -> "RB"
      [] tag = "DT" -> "DT"
      [] tag = "CC" -> "CC"
      [] OTHER -> tag

\* the filter of the important_words comprehensions
IsImportant(tk, used) ==
    /\ TagPrefix(tk.tag) \in {"NN", "VB", "JJ"}
    /\ Lower(tk.word) \notin StopWords
    /\ Lower(tk.word) \notin used
    /\ Len(tk.word) > 3

ImportantWords(tagged, used) ==
    SelectSeq(tagged, LAMBDA tk : IsImportant(tk, used))

RECURSIVE SimilarFrom(_, _, _, _)
SimilarFrom(tagged, word, tag, k) ==
    IF k > Len(tagged) THEN <<>>
    ELSE (IF tagged[k].tag = tag /\ tagged[k].word # word
          THEN <<tagged[k].word>> ELSE <<>>)
         \o SimilarFrom(tagged, word, tag, k + 1)

\* [w for w, t in tagged if t == tag and w != word_to_replace]
SimilarWords(tagged, word, tag) == SimilarFrom(tagged, word, tag, 1)

\* random.sample(population, k): k elements at distinct positions, in any order
Samples(population, k) ==
    {[n \in 1..k |-> population[f[n]]] :
        f \in {g \in [1..k -> 1..Len(population)] :
                  \A a, b \in 1..k : a # b => g[a] # g[b]}}

\* what options.extend(random.sample(similar_words, min(2, len))) can append
SimilarSamples(similar_words) ==
    IF similar_words = <<>> THEN {<<>>}
    ELSE Samples(similar_words,
                 IF Len(similar_words) < 2 THEN Len(similar_words) ELSE 2)

Elems(s) == {s[k] : k \in 1..Len(s)}

\* a list kept as it is
Dedupe_Keep(s) == s

RECURSIVE Dedupe(_)
\* list(dict.fromkeys(s)): the first occurrence of each element, in order
Dedupe(s) ==
    IF s = <<>> THEN <<>>
    ELSE LET front == Dedupe(SubSeq(s, 1, Len(s) - 1))
             last  == s[Len(s)]
         IN  IF last \in Elems(front) THEN front ELSE Append(front, last)

\* s[:n]
Take(s, n) == SubSeq(s, 1, IF n < Len(s) THEN n ELSE Len(s))

\* s.index(x), counted from 0
Index(s, x) == (CHOOSE k \in 1..Len(s) :
                   s[k] = x /\ \A j \in 1..(k - 1) : s[j] # x) - 1

\* the orders random.shuffle can leave a list in
Shuffles(s) == {[k \in 1..Len(s) |-> s[p[k]]] : p \in Permutations(1..Len(s))}

\* sentence.replace(word, '_____'): every occurrence blanked (no word of the
\* inputs is part of another)
Blank(tagged, word) ==
    [k \in 1..Len(tagged) |->
        IF tagged[k].word = word THEN "_____" ELSE tagged[k].word]

\* a pool with a single filler
GenericOptions_Single(tag_prefix) == <<"object">>

\* generic_options of generate_quiz's mcq branch
GenericOptions(tag_prefix) ==
    CASE tag_prefix = "VB" ->
           <<"make", "take", "give", "find", "show", "create", "perform">>
      [] tag_prefix = "JJ" ->
           <<"good", "new", "first", "last", "long", "important", "different">>
      [] OTHER ->
           <<"object", "item", "thing", "element", "part", "system", "component">>

\* the word lists of process_sentence's loop; no branch for any other tag
QuickOptions(tag) ==
    CASE TagPrefix(tag) = "NN" -> <<"object", "item", "thing", "element", "part">>
      [] TagPrefix(tag) = "VB" -> <<"make", "take", "give", "find", "show">>
      [] TagPrefix(tag) = "JJ" -> <<"good", "new", "first", "last", "long">>
      [] OTHER -> <<>>

\* a set of used answers that takes no new one
Remember_Nothing(used, word) == used

\* used_answers.add(word.lower())
Remember(used, word) == used \cup {Lower(word)}

\* the generator's steps leave the store alone
GenOnly == UNCHANGED <<quizzes, submissions, expired_quizzes, last_cleanup,
                       now, sweeps, threads, detached, res>>

GenFree == gen.pc \in {"idle", "done"}
GenAt(pc) == gen.pc = pc
GenReturn(g, value) == [g EXCEPT !.pc = "done", !.ret = Some(value)]
GenRaise(g, exc) == [g EXCEPT !.pc = "done", !.raised = exc]

(***************************************************************************)
(* generate_quiz.  quiz_type 'mcq': one pass over sentences[:2n].          *)
(***************************************************************************)
\* the call, after extract_text: the branch is chosen by quiz_type
GenerateQuiz(text, num_questions, quiz_type) ==
    /\ GenFree
    /\ LET g == [GenIdle EXCEPT !.fn = "generate_quiz", !.quiz_type = quiz_type,
                                !.num_questions = num_questions, !.i = 1,
                                !.text = text]
       IN  gen' = CASE quiz_type = "mcq" ->
                        [g EXCEPT !.pc = "mcq_for",
                                  !.sentences = Take(text, num_questions * 2)]
                    [] quiz_type = "true_false" ->
                        [g EXCEPT !.pc = "tf_for",
                                  !.sentences = Take(text, num_questions)]
                    [] quiz_type = "fill_blanks" ->
                        [g EXCEPT !.pc = "fb_for", !.sentences = text]
                    [] OTHER ->
                        GenRaise(g, "ValueError: Unsupported quiz type")
    /\ GenOnly

\* the head of the for loop and the choice of the word to blank
McqFor ==
    /\ GenAt("mcq_for")
    /\ IF gen.i > Len(gen.sentences)
       THEN gen' = GenReturn(gen, gen.questions)
       ELSE LET tagged == gen.sentences[gen.i]
                important_words == ImportantWords(tagged, gen.used_answers)
            IN  IF important_words = <<>>
                THEN gen' = [gen EXCEPT !.i = @ + 1]
                ELSE \E c \in 1..Len(important_words) :
                       LET word_to_replace == important_words[c].word
                           tag == important_words[c].tag
                       IN  IF Lower(word_to_replace) \in gen.used_answers
                           THEN gen' = [gen EXCEPT !.i = @ + 1]
                           ELSE \E smp \in SimilarSamples(
                                    SimilarWords(tagged, word_to_replace, tag)) :
                                  gen' = [gen EXCEPT
                                            !.pc = "mcq_fill",
                                            !.word = word_to_replace,
                                            !.tag = tag,
                                            !.options = <<word_to_replace>> \o smp]
    /\ GenOnly

\* one turn of a "while len(options) < 4" loop
FillTurn(g) ==
    {[g EXCEPT !.options = IF generic \in Elems(@) THEN @ ELSE Append(@, generic)] :
        generic \in Elems(GenericOptions(TagPrefix(g.tag)))}

McqFill ==
    /\ GenAt("mcq_fill")
    /\ Len(gen.options) < 4
    /\ gen' \in FillTurn(gen)
    /\ GenOnly

\* options = list(dict.fromkeys(options))[:4]
McqDedupe ==
    /\ GenAt("mcq_fill")
    /\ Len(gen.options) >= 4
    /\ gen' = [gen EXCEPT !.pc = "mcq_refill",
                          !.options = Take(Dedupe(@), 4)]
    /\ GenOnly

McqRefill ==
    /\ GenAt("mcq_refill")
    /\ Len(gen.options) < 4
    /\ gen' \in FillTurn(gen)
    /\ GenOnly

McqQuestion(tagged, word, options) ==
    [question |-> Blank(tagged, word), options |-> options,
     correct |-> Index(options, word), type |-> "mcq"]

\* the answer is remembered, the options shuffled, the question appended
McqEmit ==
    /\ GenAt("mcq_refill")
    /\ Len(gen.options) >= 4
    /\ \E shuffled \in Shuffles(gen.options) :
         LET questions == Append(gen.questions,
                                 McqQuestion(gen.sentences[gen.i], gen.word, shuffled))
             g == [gen EXCEPT !.used_answers = Remember(@, gen.word),
                              !.options = shuffled,
                              !.questions = questions]
         IN  gen' = IF Len(questions) >= gen.num_questions
                    THEN GenReturn(g, questions)
                    ELSE [g EXCEPT !.pc = "mcq_for", !.i = @ + 1]
    /\ GenOnly

(***************************************************************************)
(* process_sentence(sentence, used_words): one activation per call, kept   *)
(* in gen.futures.  Called on its own it is the only activation; under     *)
(* generate_mcq_questions there is one per sentence of the chunk, and the  *)
(* activations read the used_words set that the collecting thread updates. *)
(***************************************************************************)
Activation(sentence) ==
    [pc |-> "start", sentence |-> sentence, word |-> "", tag |-> "",
     options |-> <<>>, result |-> None]

ProcessSentence(sentence, used_words) ==
    /\ GenFree
    /\ gen' = [GenIdle EXCEPT !.pc = "call", !.fn = "process_sentence",
                              !.used_answers = used_words,
                              !.futures = <<Activation(sentence)>>]
    /\ GenOnly

Running(k) == gen.pc \in {"call", "collect"} /\ k \in 1..Len(gen.futures)

\* the important words are filtered against used_words and one is chosen
PsPick(k) ==
    /\ Running(k)
    /\ gen.futures[k].pc = "start"
    /\ LET act == gen.futures[k]
           important_words == ImportantWords(act.sentence, gen.used_answers)
       IN  IF important_words = <<>>
           THEN gen' = [gen EXCEPT !.futures[k].pc = "done"]
           ELSE \E c \in 1..Len(important_words) :
                  LET word_to_replace == important_words[c].word
                      tag == important_words[c].tag
                  IN  \E smp \in SimilarSamples(
                             SimilarWords(act.sentence, word_to_replace, tag)) :
                        gen' = [gen EXCEPT
                                  !.futures[k].pc = "fill",
                                  !.futures[k].word = word_to_replace,
                                  !.futures[k].tag = tag,
                                  !.futures[k].options = <<word_to_replace>> \o smp]
    /\ GenOnly

\* one turn of the while loop: a word appended, then duplicates removed
PsFill(k) ==
    /\ Running(k)
    /\ gen.futures[k].pc = "fill"
    /\ Len(gen.futures[k].options) < 4
    /\ \E generic \in Elems(QuickOptions(gen.futures[k].tag)) :
         gen' = [gen EXCEPT !.futures[k].options = Dedupe(Append(@, generic))]
    /\ GenOnly

PsQuestion(tagged, word, options) ==
    [question |-> Blank(tagged, word), options |-> Take(options, 4),
     correct |-> Index(options, word), correct_answer |-> word, type |-> "mcq"]

\* the options are shuffled and the question returned
PsReturn(k) ==
    /\ Running(k)
    /\ gen.futures[k].pc = "fill"
    /\ Len(gen.futures[k].options) >= 4
    /\ \E shuffled \in Shuffles(gen.futures[k].options) :
         gen' = [gen EXCEPT
                   !.futures[k].pc = "done",
                   !.futures[k].options = shuffled,
                   !.futures[k].result =
                       Some(PsQuestion(gen.futures[k].sentence,
                                       gen.futures[k].word, shuffled))]
    /\ GenOnly

\* the caller of process_sentence gets the question, or None
PsCallReturn ==
    /\ GenAt("call")
    /\ gen.futures[1].pc = "done"
    /\ gen' = GenReturn(gen, gen.futures[1].result)
    /\ GenOnly

(***************************************************************************)
(* generate_quiz, quiz_type 'true_false', and generate_fill_blanks.        *)
(***************************************************************************)
WordsOf(tagged) == [k \in 1..Len(tagged) |-> tagged[k].word]

Negations == {"not", "never", "rarely", "hardly"}

\* the statements one sentence can become: itself, marked correct (0), or,
\* marked 1, with one word overwritten when it has more than three words
TfQuestions(tagged) ==
    LET words == WordsOf(tagged)
    IN  {[question |-> words, type |-> "true_false", correct |-> 0]}
        \cup (IF Len(words) > 3
              THEN {[question |-> [words EXCEPT ![pos] = neg],
                     type |-> "true_false", correct |-> 1] :
                       pos \in 1..Len(words), neg \in Negations}
              ELSE {[question |-> words, type |-> "true_false", correct |-> 1]})

TfFor ==
    /\ GenAt("tf_for")
    /\ IF gen.i > Len(gen.sentences)
       THEN gen' = GenReturn(gen, gen.questions)
       ELSE \E q \in TfQuestions(gen.sentences[gen.i]) :
              gen' = [gen EXCEPT !.questions = Append(@, q), !.i = @ + 1]
    /\ GenOnly

RECURSIVE BlankFirstFrom(_, _, _)
BlankFirstFrom(words, word, k) ==
    IF k > Len(words) THEN words
    ELSE IF words[k] = word THEN [words EXCEPT ![k] = "_____"]
         ELSE BlankFirstFrom(words, word, k + 1)

\* sentence.replace(word, '_____', 1): the first occurrence blanked
BlankFirst(tagged, word) == BlankFirstFrom(WordsOf(tagged), word, 1)

FbQuestion(tagged, word) ==
    [question |-> BlankFirst(tagged, word), type |-> "fill_blanks",
     options |-> <<word>>, correct |-> 0]

FbFor ==
    /\ GenAt("fb_for")
    /\ IF gen.i > Len(gen.sentences) \/ Len(gen.questions) >= gen.num_questions
       THEN gen' = GenReturn(gen, gen.questions)
       ELSE LET tagged == gen.sentences[gen.i]
                important_words == ImportantWords(tagged, gen.used_answers)
            IN  IF important_words = <<>>
                THEN gen' = [gen EXCEPT !.i = @ + 1]
                ELSE \E c \in 1..Len(important_words) :
                       LET word == important_words[c].word
                       IN  gen' = IF Lower(word) \in gen.used_answers
                                  THEN [gen EXCEPT !.i = @ + 1]
                                  ELSE [gen EXCEPT
                                          !.word = word,
                                          !.questions =
                                              Append(@, FbQuestion(tagged, word)),
                                          !.used_answers = Remember(@, word),
                                          !.i = @ + 1]
    /\ GenOnly

(***************************************************************************)
(* generate_true_false_questions: a statement marked false has the first   *)
(* adjective, adverb or verb of the antonyms table replaced.               *)
(***************************************************************************)
Antonyms(w) ==
    CASE w = "good" -> Some("bad")     [] w = "bad" -> Some("good")
      [] w = "high" -> Some("low")     [] w = "low" -> Some("high")
      [] w = "large" -> Some("small")  [] w = "small" -> Some("large")
      [] w = "fast" -> Some("slow")    [] w = "slow" -> Some("fast")
      [] w = "early" -> Some("late")   [] w = "late" -> Some("early")
      [] w = "hot" -> Some("cold")     [] w = "cold" -> Some("hot")
      [] w = "new" -> Some("old")      [] w = "old" -> Some("new")
      [] w = "right" -> Some("wrong")  [] w = "wrong" -> Some("right")
      [] OTHER -> None

\* the positions of the tokens the loop over tagged can stop at
Replaceable(tagged) ==
    {k \in 1..Len(tagged) :
        /\ TagPrefix(tagged[k].tag) \in {"JJ", "RB", "VB"}
        /\ Antonyms(Lower(tagged[k].word)).some}

\* modified.replace(word, antonyms[word.lower()]): every occurrence
ReplaceAll(words, word, by) ==
    [k \in 1..Len(words) |-> IF words[k] = word THEN by ELSE words[k]]

Modified(tagged) ==
    IF Replaceable(tagged) = {} THEN WordsOf(tagged)
    ELSE LET k == CHOOSE j \in Replaceable(tagged) :
                     \A h \in Replaceable(tagged) : j <= h
         IN  ReplaceAll(WordsOf(tagged), tagged[k].word,
                        Antonyms(Lower(tagged[k].word)).val)

GenerateTrueFalseQuestions(text, num_questions) ==
    /\ GenFree
    /\ gen' = [GenIdle EXCEPT !.fn = "generate_true_false_questions",
                              !.pc = "tfq_for", !.text = text,
                              !.sentences = Take(text, num_questions),
                              !.num_questions = num_questions, !.i = 1]
    /\ GenOnly

TfqFor ==
    /\ GenAt("tfq_for")
    /\ IF gen.i > Len(gen.sentences) \/ Len(gen.questions) >= gen.num_questions
       THEN gen' = GenReturn(gen, gen.questions)
       ELSE \E correct_answer \in BOOLEAN :
              LET tagged == gen.sentences[gen.i]
                  q == [question |-> IF correct_answer THEN WordsOf(tagged)
                                     ELSE Modified(tagged),
                        type |-> "true_false",
                        correct |-> IF correct_answer THEN 0 ELSE 1]
              IN  gen' = [gen EXCEPT !.questions = Append(@, q), !.i = @ + 1]
    /\ GenOnly

(***************************************************************************)
(* generate_mcq_questions: the sentences of a chunk are all submitted to   *)
(* the executor before any result is collected; as_completed hands the     *)
(* results over in the order in which the activations finish.              *)
(***************************************************************************)
ChunkLimit == 10

ChunkSize(sentences) ==
    IF Len(sentences) < ChunkLimit THEN Len(sentences) ELSE ChunkLimit

\* sentences[i:i + chunk_size], positions counted from 1
Chunk(sentences, i) ==
    SubSeq(sentences, i,
           IF i + ChunkSize(sentences) - 1 < Len(sentences)
           THEN i + ChunkSize(sentences) - 1 ELSE Len(sentences))

\* range(0, 0, 0) raises for a text without sentences
GenerateMcqQuestions(text, num_questions) ==
    /\ GenFree
    /\ LET g == [GenIdle EXCEPT !.fn = "generate_mcq_questions",
                                !.sentences = text,
                                !.num_questions = num_questions, !.i = 1]
       IN  gen' = IF Len(text) = 0
                  THEN GenRaise(g, "ValueError: range() arg 3 must not be zero")
                  ELSE [g EXCEPT !.pc = "chunk"]
    /\ GenOnly

\* the head of the loop over the chunks: enough questions or no chunk left
\* ends it, otherwise every sentence of the chunk is submitted
ParChunk ==
    /\ GenAt("chunk")
    /\ gen' = IF gen.i > Len(gen.sentences)
                 \/ Len(gen.questions) >= gen.num_questions
              THEN GenReturn(gen, Take(gen.questions, gen.num_questions))
              ELSE LET chunk == Chunk(gen.sentences, gen.i)
                   IN  [gen EXCEPT
                          !.pc = "collect",
                          !.futures = [k \in 1..Len(chunk) |-> Activation(chunk[k])],
                          !.collected = {}]
    /\ GenOnly

\* as_completed yields a finished activation: its question is kept while
\* fewer than num_questions are, and its answer joins used_words
ParCollect(k) ==
    /\ GenAt("collect")
    /\ k \in 1..Len(gen.futures)
    /\ k \notin gen.collected
    /\ gen.futures[k].pc = "done"
    /\ LET result == gen.futures[k].result
       IN  gen' = IF result.some /\ Len(gen.questions) < gen.num_questions
                  THEN [gen EXCEPT
                          !.collected = @ \cup {k},
                          !.questions = Append(@, result.val),
                          !.used_answers = Remember(@, result.val.correct_answer)]
                  ELSE [gen EXCEPT !.collected = @ \cup {k}]
    /\ GenOnly

\* every result of the chunk was collected: on to the next chunk
ParChunkEnd ==
    /\ GenAt("collect")
    /\ gen.collected = 1..Len(gen.futures)
    /\ gen' = [gen EXCEPT !.pc = "chunk", !.i = @ + ChunkSize(gen.sentences)]
    /\ GenOnly

(***************************************************************************)
(* The generator's inputs and specifications.                              *)
(***************************************************************************)
\* generate_quiz: text, num_questions, quiz_type
GenInputs ==
    {<<<<SRome>>, 1, "mcq">>,
     <<<<SOslo, SParis>>, 2, "mcq">>,
     <<<<SParis, Sparis>>, 2, "mcq">>,
     <<<<SNone, SNone, SParis>>, 1, "mcq">>,
     <<<<>>, 1, "mcq">>,
     <<<<SParis, SNone>>, 1, "true_false">>,
     <<<<SRome>>, 2, "true_false">>,
     <<<<SOslo, SParis, SRome>>, 2, "fill_blanks">>,
     <<<<SParis, SNone, Sparis>>, 2, "fill_blanks">>,
     <<<<SParis>>, 1, "essay">>}

\* generate_true_false_questions: text, num_questions
TfInputs == {<<<<SLarge, SParis>>, 2>>, <<<<SNone, SLarge>>, 1>>}

\* process_sentence: sentence, used_words
SentenceInputs ==
    {<<SParis, {}>>, <<SRome, {}>>, <<SOslo, {"paris"}>>, <<Sparis, {"paris"}>>,
     <<SNone, {}>>}

GenNext ==
    \/ \E k \in GenInputs : GenerateQuiz(k[1], k[2], k[3])
    \/ McqFor
    \/ McqFill
    \/ McqDedupe
    \/ McqRefill
    \/ McqEmit
    \/ TfFor
    \/ FbFor
    \/ \E k \in TfInputs : GenerateTrueFalseQuestions(k[1], k[2])
    \/ TfqFor
    \/ \E k \in SentenceInputs : ProcessSentence(k[1], k[2])
    \/ PsPick(1)
    \/ PsFill(1)
    \/ PsReturn(1)
    \/ PsCallReturn

SpecGen == Init /\ [][GenNext]_vars

\* generate_mcq_questions: text, num_questions
ParInputs ==
    {<<<<SParis, Sparis>>, 2>>,
     <<<<SNone, SParis>>, 1>>,
     <<<<SParis, SNone>>, 2>>,
     <<<<>>, 1>>}

ParNext ==
    \/ \E k \in ParInputs : GenerateMcqQuestions(k[1], k[2])
    \/ ParChunk
    \/ \E k \in 1..Len(gen.futures) : PsPick(k)
    \/ \E k \in 1..Len(gen.futures) : PsFill(k)
    \/ \E k \in 1..Len(gen.futures) : PsReturn(k)
    \/ \E k \in 1..Len(gen.futures) : ParCollect(k)
    \/ ParChunkEnd

SpecPar == Init /\ [][ParNext]_vars

(***************************************************************************)
(* The generation calls under a scheduler that keeps the call running:     *)
(* while a step of the call that changes its state is possible, one is     *)
(* taken.  A draw of a filler that the options already hold changes        *)
(* nothing, so the condition says of the random draws only that they do    *)
(* not repeat used fillers for ever.                                       *)
(***************************************************************************)
\* generate_quiz: text, num_questions, quiz_type
LiveInputs ==
    {<<<<SRome>>, 1, "mcq">>,
     <<<<SNone, SParis>>, 1, "mcq">>,
     <<<<SParis, Sparis>>, 2, "mcq">>,
     <<<<>>, 1, "mcq">>,
     <<<<SParis, SNone>>, 1, "true_false">>,
     <<<<SOslo, SParis, SRome>>, 2, "fill_blanks">>,
     <<<<SParis>>, 1, "essay">>}

\* generate_mcq_questions: text, num_questions
LiveParInputs == {<<<<SRome, SNone>>, 1>>, <<<<SNone, SParis>>, 2>>, <<<<>>, 1>>}

GenCalls ==
    \/ \E k \in LiveInputs : GenerateQuiz(k[1], k[2], k[3])
    \/ \E k \in TfInputs : GenerateTrueFalseQuestions(k[1], k[2])
    \/ \E k \in LiveParInputs : GenerateMcqQuestions(k[1], k[2])

GenSteps ==
    \/ McqFor
    \/ McqFill
    \/ McqDedupe
    \/ McqRefill
    \/ McqEmit
    \/ TfFor
    \/ FbFor
    \/ TfqFor
    \/ ParChunk
    \/ \E k \in 1..Len(gen.futures) : PsPick(k)
    \/ \E k \in 1..Len(gen.futures) : PsFill(k)
    \/ \E k \in 1..Len(gen.futures) : PsReturn(k)
    \/ \E k \in 1..Len(gen.futures) : ParCollect(k)
    \/ ParChunkEnd

LiveNext == GenCalls \/ GenSteps

SpecLive == Init /\ [][LiveNext]_vars /\ WF_vars(GenSteps)

(***************************************************************************)
(* ObjectiveTest.generate_distractors (objective.py).  The context is      *)
(* taken as the words word_tokenize returns for it.                        *)
(***************************************************************************)
\* str.capitalize() of a lowercase word
Capitalize(w) ==
    CASE w = "paris" -> "Paris"
      [] w = "rome" -> "Rome"
      [] w = "hosts" -> "Hosts"
      [] w = "large" -> "Large"
      [] w = "museums" -> "Museums"
      [] w = "ruins" -> "Ruins"
      [] w = "answer" -> "Answer"
      [] w = "none" -> "None"
      [] OTHER -> w

\* str.isalnum() on the words of the inputs
IsAlnum(w) == w \notin {",", ".", "!", "?", "-", ""}

\* w in text, for shorter words w of the inputs and the answers of the inputs
ProperParts ==
    {<<"none", "none of the above">>, <<"above", "none of the above">>,
     <<"the", "none of the above">>, <<"of", "none of the above">>}

\* the substring test "w in text"
IsPartOf(w, text) == w = "" \/ w = text \/ <<w, text>> \in ProperParts

\* the words of stopwords.words('english') that the contexts use
ContextStopWords == {"the", "and", "is", "of", "above"}

\* the candidates: capitalized words of the context that are alphanumeric,
\* no stopwords, not part of the lowercased answer and longer than three
Candidates(answer, context) ==
    {Capitalize(Lower(context[k])) :
        k \in {j \in 1..Len(context) :
                  /\ IsAlnum(Lower(context[j]))
                  /\ Lower(context[j]) \notin ContextStopWords
                  /\ ~IsPartOf(Lower(context[j]), Lower(answer))
                  /\ Len(Lower(context[j])) > 3}}

BasicDistractors(answer) ==
    <<"Not " \o answer, "None of the above", "All of the above">>

\* the lists generate_distractors can return: a sample of three candidates
\* (the set is listed in any order), or the three basic ones
Distractors(answer, context) ==
    LET distractors == Candidates(answer, context)
    IN  IF Cardinality(distractors) >= 3
        THEN {d \in [1..3 -> distractors] : \A a, b \in 1..3 : a # b => d[a] # d[b]}
        ELSE {BasicDistractors(answer)}

Context1 == <<"Paris", "hosts", "large", "museums", ",", "and", "Rome", "hosts",
              "ruins", ".">>
Context2 == <<"The", "answer", "is", "none", "of", "the", "above", ".">>

\* answer, context
DistractorInputs ==
    {<<"Paris", Context1>>, <<"Rome", Context1>>, <<"", Context1>>,
     <<"Paris", <<>>>>, <<"", <<>>>>, <<"none of the above", Context2>>}

GenerateDistractors(answer, context) ==
    /\ GenFree
    /\ \E d \in Distractors(answer, context) :
         gen' = GenReturn([GenIdle EXCEPT !.fn = "generate_distractors",
                                          !.word = answer,
                                          !.sentences = <<context>>], d)
    /\ GenOnly

ObjNext == \E k \in DistractorInputs : GenerateDistractors(k[1], k[2])

SpecObj == Init /\ [][ObjNext]_vars

(***************************************************************************)
(* clean_text (file_handler.py and quiz_generator.py) and the end of       *)
(* process_uploaded_file.  A text is a sequence of characters.             *)
(***************************************************************************)
MaxTextLen == 5

\* a letter, the two kinds of whitespace, a symbol, the hyphen, the underscore
Chars == {"a", " ", "\n", "@", "-", "_"}
Texts == UNION {[1..n -> Chars] : n \in 0..MaxTextLen}

\* str.isspace(), \s
IsSpace(c) == c \in {" ", "\n"}
\* str.isalnum()
IsAlnumChar(c) == c = "a"
\* \w: the alphanumeric characters and the underscore
IsWordChar(c) == IsAlnumChar(c) \/ c = "_"

RECURSIVE CollapseFrom(_, _)
CollapseFrom(text, k) ==
    IF k > Len(text) THEN <<>>
    ELSE IF IsSpace(text[k])
         THEN (IF k > 1 /\ IsSpace(text[k - 1]) THEN <<>> ELSE <<" ">>)
              \o CollapseFrom(text, k + 1)
         ELSE <<text[k]>> \o CollapseFrom(text, k + 1)

\* re.sub(r'\s+', ' ', text): every run of whitespace becomes one space
Collapse(text) == CollapseFrom(text, 1)

RECURSIVE LStrip(_)
LStrip(text) ==
    IF text # <<>> /\ IsSpace(Head(text)) THEN LStrip(Tail(text)) ELSE text

RECURSIVE RStrip(_)
RStrip(text) ==
    IF text # <<>> /\ IsSpace(text[Len(text)])
    THEN RStrip(SubSeq(text, 1, Len(text) - 1)) ELSE text

\* str.strip()
Strip(text) == RStrip(LStrip(text))

\* re.sub(r'[^\w\s.,!?-]', '', text)
KeepBasic(text) ==
    SelectSeq(text, LAMBDA c : IsWordChar(c) \/ IsSpace(c)
                                 \/ c \in {".", ",", "!", "?", "-"})

\* file_handler.clean_text
CleanText(text) == Strip(KeepBasic(Collapse(text)))

\* ' '.join(text.split()): the words of the text, one space between them
JoinSplit(text) == Strip(Collapse(text))

\* quiz_generator.clean_text: no hyphen among the characters kept, and the
\* result is returned as it is
GeneratorCleanText(text) ==
    SelectSeq(JoinSplit(text), LAMBDA c : IsAlnumChar(c) \/ IsSpace(c)
                                            \/ c \in {".", ",", "!", "?"})

\* each call is looked at on its own, from the initial state
CallCleanText(text) ==
    /\ GenAt("idle")
    /\ gen' = GenReturn([GenIdle EXCEPT !.fn = "file_handler.clean_text",
                                        !.text = text], CleanText(text))
    /\ GenOnly

CallGeneratorCleanText(text) ==
    /\ GenAt("idle")
    /\ gen' = GenReturn([GenIdle EXCEPT !.fn = "quiz_generator.clean_text",
                                        !.text = text], GeneratorCleanText(text))
    /\ GenOnly

\* process_uploaded_file once the text is extracted
ProcessUploadedFile(text) ==
    /\ GenAt("idle")
    /\ LET g == [GenIdle EXCEPT !.fn = "process_uploaded_file", !.text = text]
           cleaned_text == CleanText(text)
       IN  gen' = IF Strip(text) = <<>>
                  THEN GenRaise(g, "FileProcessingError: No text could be extracted from the file")
                  ELSE IF cleaned_text = <<>>
                  THEN GenRaise(g, "FileProcessingError: No text content could be extracted from the file")
                  ELSE GenReturn(g, cleaned_text)
    /\ GenOnly

CleanNext ==
    \/ GenAt("idle") /\ \E text \in Texts : CallCleanText(text)
    \/ GenAt("idle") /\ \E text \in Texts : CallGeneratorCleanText(text)
    \/ GenAt("idle") /\ \E text \in Texts : ProcessUploadedFile(text)

SpecClean == Init /\ [][CleanNext]_vars

(***************************************************************************)
(* Properties of the store under sequential calls (Spec).                  *)
(***************************************************************************)
NotFoundError == "ValueError: Quiz not found"
MismatchError == "ValueError: Number of answers does not match number of questions"

\* C1: submit_quiz on an active quiz with len(answers) # len(questions)
\* raises the answer-count error and leaves the quiz's total_attempts as it was.
C1_MismatchKeepsAttempts ==
    [][\A c \in Codes, s \in Students, a \in ScoreAnswers :
          (/\ SubmitQuiz(c, s, a)
           /\ GetQuiz(c).some
           /\ Len(a) # Len(quizzes[c].questions))
             => /\ res'.raised = MismatchError
                /\ quizzes'[c].total_attempts = quizzes[c].total_attempts]_vars

\* a submission with too few answers was refused for a quiz that had been
\* attempted twice, and the quiz still counts two attempts
C1_Witness ==
    /\ res.op = "submit_quiz"
    /\ res.raised = MismatchError
    /\ res.code \in DOMAIN quizzes
    /\ quizzes[res.code].total_attempts = 2
    /\ Len(quizzes[res.code].submissions) = 3
    /\ Len(quizzes[res.code].submissions[3].answers) = 1

\* unknown, or expired whether swept or not
Unretrievable(code) == code \notin DOMAIN quizzes \/ now >= quizzes[code].expires_at

\* C2: submit_quiz for a code that is unknown or whose expires_at has passed
\* (swept or not) raises "Quiz not found", records no submission and changes
\* no quiz.
C2_SubmitUnknownOrExpired ==
    [][(res'.op = "submit_quiz" /\ Unretrievable(res'.code))
          => /\ res'.raised = NotFoundError
             /\ submissions' = submissions
             /\ quizzes' = quizzes
             /\ expired_quizzes' = expired_quizzes]_vars

\* a submission was refused for a quiz that had been attempted, has expired and
\* has not been swept, while the other code is unknown
C2_Witness ==
    /\ res.op = "submit_quiz"
    /\ res.raised = NotFoundError
    /\ res.code \in DOMAIN quizzes
    /\ now >= quizzes[res.code].expires_at
    /\ quizzes[res.code].total_attempts = 1
    /\ DOMAIN quizzes = {res.code}

\* the same quiz object: what create_quiz stored, whatever was submitted since
SameQuiz(a, b) ==
    /\ a.created_at = b.created_at
    /\ a.expires_at = b.expires_at
    /\ a.questions = b.questions
    /\ a.type = b.type
    /\ a.created_by = b.created_by

\* C3: a quiz created at T is returned by get_quiz(code) at every time before
\* its expires_at = T + 24h and get_quiz(code) is not-found at every time from
\* expires_at on, swept or not.
C3_RetrievableUntilExpiry ==
    [][/\ res'.op = "create_quiz" =>
            /\ Lookup(quizzes', res'.code, now').some
            /\ quizzes'[res'.code].created_at = now'
            /\ quizzes'[res'.code].expires_at = now' + ExpiryTime
       /\ \A c \in DOMAIN quizzes :
            IF now' < quizzes[c].expires_at
            THEN /\ Lookup(quizzes', c, now').some
                 /\ SameQuiz(Lookup(quizzes', c, now').val, quizzes[c])
            ELSE ~Lookup(quizzes', c, now').some]_vars

\* C4: what create_quiz(questions, quiz_type, created_by) stored under the
\* code it returned is what get_quiz(code) returns before expiry, whatever
\* create_quiz and submit_quiz calls come in between.
C4_RoundTrip ==
    [][/\ \A k \in QuizInputs, c \in Codes :
            CreateQuiz(k[1], k[2], k[3], c) =>
                /\ Lookup(quizzes', c, now').some
                /\ Lookup(quizzes', c, now').val.questions = k[1]
                /\ Lookup(quizzes', c, now').val.type = k[2]
                /\ Lookup(quizzes', c, now').val.created_by = k[3]
       /\ \A c \in Codes :
            (Lookup(quizzes, c, now).some /\ now' < quizzes[c].expires_at) =>
                /\ Lookup(quizzes', c, now').some
                /\ Lookup(quizzes', c, now').val.questions = quizzes[c].questions
                /\ Lookup(quizzes', c, now').val.type = quizzes[c].type
                /\ Lookup(quizzes', c, now').val.created_by = quizzes[c].created_by]_vars

\* C5: a sweep removes every quiz whose expires_at has passed from the active
\* store and get_expired_quiz(code) then returns that quiz's record.
C5_ArchiveRetainsData ==
    [][res'.op = "cleanup_expired_quizzes" =>
          \A c \in DOMAIN quizzes :
              now >= quizzes[c].expires_at =>
                  /\ c \notin DOMAIN quizzes'
                  /\ LookupExpired(expired_quizzes', c) = Some(quizzes[c])]_vars

\* C6: the code create_quiz returns is not the code of a quiz in the store
\* (as the store is when the code is drawn, after the sweep if one ran).
C6_UniqueCode ==
    [][res'.op = "create_quiz" =>
          res'.code \notin
              (IF res'.ret.val.swept
               THEN DOMAIN quizzes \ {c \in DOMAIN quizzes : now >= quizzes[c].expires_at}
               ELSE DOMAIN quizzes)]_vars

\* C7: create_quiz runs the sweep only when more than _cleanup_interval
\* seconds have passed since the last sweep or since construction, so it is
\* more than one interval after every earlier sweep that create_quiz ran.
C7_SweepAtMostOncePerInterval ==
    [][(res'.op = "create_quiz" /\ res'.ret.val.swept) =>
          /\ now - last_cleanup > CleanupInterval
          /\ \A i \in 1..Len(sweeps) : now - sweeps[i] > CleanupInterval]_vars

\* create_quiz has just run the sweep for the second time, two intervals
\* after the first
C7_Witness ==
    /\ Len(sweeps) = 2
    /\ res.op = "create_quiz"
    /\ res.ret.val.swept
    /\ sweeps[2] - sweeps[1] = 2 * CleanupInterval

(***************************************************************************)
(* Exact arithmetic on the values of floats (dyadic rationals m * 2^e),    *)
(* to state what the floating-point results are compared with.             *)
(***************************************************************************)
\* the mantissas of x and y over their smaller exponent
DAlign(x, y) ==
    LET lo == IF x.e <= y.e THEN x.e ELSE y.e
    IN  <<BShl(x.m, x.e - lo), BShl(y.m, y.e - lo), lo>>

DAdd(x, y) == LET a == DAlign(x, y) IN [m |-> BAdd(a[1], a[2]), e |-> a[3]]
DDist(x, y) ==
    LET a == DAlign(x, y)
    IN  [m |-> IF BCmp(a[1], a[2]) >= 0 THEN BSub(a[1], a[2]) ELSE BSub(a[2], a[1]),
         e |-> a[3]]
DLeq(x, y) == LET a == DAlign(x, y) IN BCmp(a[1], a[2]) <= 0
DEq(x, y) == LET a == DAlign(x, y) IN BCmp(a[1], a[2]) = 0
DMulInt(x, k) == [m |-> BMulSmall(x.m, k), e |-> x.e]
DScale(x, s) == [m |-> x.m, e |-> x.e + s]

RECURSIVE DSumFrom(_, _)
DSumFrom(xs, i) == IF i > Len(xs) THEN FZero ELSE DAdd(xs[i], DSumFrom(xs, i + 1))

\* the score percentages of the successful submissions to a quiz, in order,
\* from the i-th stored submission on
RECURSIVE SuccessfulScoresFrom(_, _)
SuccessfulScoresFrom(quiz, i) ==
    IF i > Len(quiz.submissions) THEN <<>>
    ELSE IF Len(quiz.submissions[i].answers) # Len(quiz.questions)
            \/ Len(quiz.questions) = 0
    THEN SuccessfulScoresFrom(quiz, i + 1)
    ELSE <<FMulInt(FIntDiv(CorrectCount(quiz.questions, quiz.submissions[i].answers),
                           Len(quiz.questions)), 100)>>
         \o SuccessfulScoresFrom(quiz, i + 1)

SuccessfulScores(quiz) == SuccessfulScoresFrom(quiz, 1)

\* the exact sum of those percentages
ScoreSum(quiz) == DSumFrom(SuccessfulScores(quiz), 1)

\* the exact product average_score * total_attempts
AverageTimesAttempts(quiz) == DMulInt(quiz.average_score, quiz.total_attempts)

Succeeded(r) == r.op = "submit_quiz" /\ r.raised = ""

\* total_attempts goes up by one and average_score becomes the floating-point
\* value of (old_average * (n - 1) + score_percentage) / n
RunningMeanStep(old, new, score_percentage) ==
    /\ new.total_attempts = old.total_attempts + 1
    /\ new.average_score =
           FDivInt(FAdd(FMulInt(old.average_score, new.total_attempts - 1),
                        score_percentage),
                   new.total_attempts)

\* the relative error allowed per attempt: 2^-50
DriftExp == 0 - (MantBits - 3)

\* |average_score * total_attempts - sum| <= total_attempts * 2^-50 * sum
WithinDrift(quiz, sum) ==
    DLeq(DDist(AverageTimesAttempts(quiz), sum),
         DScale(DMulInt(sum, quiz.total_attempts), DriftExp))

\* C8 (as stated): each successful submit_quiz adds one to total_attempts and
\* sets average_score by the running-mean formula, and average_score *
\* total_attempts (computed in floating point, as a caller would) equals the
\* sum of the score percentages of the successful submissions.
C8_RunningMeanExact ==
    [][Succeeded(res') =>
          LET quiz == quizzes'[res'.code]
          IN  /\ RunningMeanStep(quizzes[res'.code], quiz,
                                 res'.ret.val.score_percentage)
              /\ FMulInt(quiz.average_score, quiz.total_attempts)
                     = FSum(SuccessfulScores(quiz))]_vars

\* C8 (amended): each successful submit_quiz adds one to total_attempts and
\* sets average_score by the running-mean formula evaluated in floating
\* point; the exact product average_score * total_attempts differs from the
\* exact sum of the score percentages by at most total_attempts * 2^-50 times
\* that sum.
C8_RunningMeanWithinRounding ==
    [][Succeeded(res') =>
          LET quiz == quizzes'[res'.code]
          IN  /\ RunningMeanStep(quizzes[res'.code], quiz,
                                 res'.ret.val.score_percentage)
              /\ WithinDrift(quiz, ScoreSum(quiz))]_vars

\* the fifth successful submission has just been counted and the product of
\* the average and the attempts, exact or in floating point, is not the sum
\* of the percentages
C8_Witness ==
    /\ Succeeded(res)
    /\ quizzes[res.code].total_attempts = 5
    /\ ~DEq(AverageTimesAttempts(quizzes[res.code]), ScoreSum(quizzes[res.code]))
    /\ FMulInt(quizzes[res.code].average_score, 5)
           # FSum(SuccessfulScores(quizzes[res.code]))

\* the score percentage of each stored submission, against the quiz's questions
StoredScores(quiz, subs) ==
    [i \in 1..Len(subs) |->
        FMulInt(FIntDiv(CorrectCount(quiz.questions, subs[i].answers),
                        Len(quiz.questions)), 100)]

\* C9: get_quiz_stats(code) returns not-found for an unknown or expired code,
\* zeros for an active quiz without stored submissions, and otherwise the
\* number of stored submissions with the mean, the maximum and the minimum of
\* their score percentages.
C9_StatsFromStoredSubmissions ==
    \A c \in Codes :
        LET got  == GetQuizStats(c)
            subs == GetQuizResponses(c)
        IN  IF ~GetQuiz(c).some THEN got = <<"", None>>
            ELSE IF Len(subs) = 0
            THEN got = <<"", Some([total_attempts |-> 0, average_score |-> FZero,
                                   highest_score |-> FZero, lowest_score |-> FZero,
                                   submissions |-> <<>>])>>
            ELSE /\ got[1] = ""
                 /\ got[2].some
                 /\ got[2].val.total_attempts = Len(subs)
                 /\ LET scores == StoredScores(GetQuiz(c).val, subs)
                    IN  /\ got[2].val.average_score = FDivInt(FSum(scores), Len(subs))
                        /\ got[2].val.highest_score = FMax(scores)
                        /\ got[2].val.lowest_score = FMin(scores)

\* the threads whose submit_quiz on code returned a response
Returned(code) ==
    {t \in Threads : At(t, "done") /\ threads[t].code = code /\ threads[t].raised = ""}

\* their score percentages, in the order of the thread numbers from i on
RECURSIVE ReturnedScoresFrom(_, _)
ReturnedScoresFrom(code, i) ==
    IF i > NThreads THEN <<>>
    ELSE (IF i \in Returned(code) THEN <<threads[i].score_percentage>> ELSE <<>>)
         \o ReturnedScoresFrom(code, i + 1)

\* no thread is inside submit_quiz
Quiescent == \A t \in Threads : At(t, "idle") \/ At(t, "done")

\* C10: once N concurrent submit_quiz calls on a quiz have all returned, the
\* quiz's total_attempts is N and its average_score is the mean of the N score
\* percentages.
C10_NoLostUpdates ==
    Quiescent =>
        \A c \in DOMAIN quizzes :
            LET n == Cardinality(Returned(c))
            IN  /\ quizzes[c].total_attempts = n
                /\ n > 0 => quizzes[c].average_score =
                                FDivInt(FSum(ReturnedScoresFrom(c, 1)), n)

\* the record the store retains for a code: the active quiz, else what the
\* archive holds
Retained(code) ==
    IF code \in DOMAIN quizzes THEN Some(quizzes[code])
    ELSE LookupExpired(expired_quizzes, code)

\* the submission the thread recorded is in the retained record's list
Attached(t) ==
    LET r == Retained(threads[t].code)
    IN  /\ r.some
        /\ \E i \in 1..Len(r.val.submissions) :
               r.val.submissions[i] = ThreadSubmission(t)

\* the thread's submit_quiz found the quiz at line 67
FoundQuiz(t) == ~At(t, "idle") /\ threads[t].raised # NotFoundError

\* C11: a submit_quiz that found its quiz at the lookup does not fail because
\* a concurrent sweep removed the quiz's submission list, and once it has
\* completed, the submission it recorded is in the record the store retains
\* for the quiz.
C11_SweepSafeForRequests ==
    \A t \in Threads :
        FoundQuiz(t) =>
            /\ threads[t].raised # "KeyError"
            /\ At(t, "done") => Attached(t)

\* C12: the state cleanup_expired_quizzes leaves is the state a second run at
\* the same instant leaves: active store, submissions map and archive.
C12_CleanupIdempotent ==
    [][res'.op = "cleanup_expired_quizzes" =>
          LET after == <<quizzes', submissions', expired_quizzes'>>
          IN  Cleanup(after, now') = after]_vars

\* the sweep has just archived one expired quiz and left another, which has
\* a stored submission, in the store
C12_Witness ==
    /\ res.op = "cleanup_expired_quizzes"
    /\ Cardinality(DOMAIN expired_quizzes) = 1
    /\ Cardinality(DOMAIN quizzes) = 1
    /\ DOMAIN submissions = DOMAIN quizzes
    /\ \A c \in DOMAIN quizzes : Len(submissions[c]) = 1

(***************************************************************************)
(* Properties of the generated questions (SpecGen, SpecPar).               *)
(***************************************************************************)
Distinct(s) == \A a, b \in 1..Len(s) : a # b => s[a] # s[b]

\* four pairwise distinct options and an index that points at one of them
FourOptions(q) ==
    /\ Len(q.options) = 4
    /\ Distinct(q.options)
    /\ q.correct \in 0..3

\* ... and the index is where the blanked word sits
PointsAt(q, word) == FourOptions(q) /\ q.options[q.correct + 1] = word

\* C13: every question that generate_quiz's mcq branch appends and every
\* question that process_sentence returns has exactly four options, pairwise
\* distinct as written, and 'correct' in 0..3 is the position of the blanked
\* word among the shuffled options.
C13_FourDistinctOptions ==
    [][/\ (gen'.quiz_type = "mcq" /\ Len(gen'.questions) > Len(gen.questions))
            => PointsAt(gen'.questions[Len(gen'.questions)], gen.word)
       /\ gen'.quiz_type = "mcq"
            => \A k \in 1..Len(gen'.questions) : FourOptions(gen'.questions[k])
       /\ \A k \in 1..Len(gen'.futures) :
            gen'.futures[k].result.some
              => PointsAt(gen'.futures[k].result.val, gen'.futures[k].word)]_vars

\* generate_quiz has returned a question made from "Rome, Ulm, Ulm", whose
\* sample of similar words is Ulm twice
C13_Witness ==
    /\ GenAt("done")
    /\ gen.quiz_type = "mcq"
    /\ gen.sentences = <<SRome>>
    /\ Len(gen.ret.val) = 1
    /\ "Ulm" \in Elems(gen.ret.val[1].options)

\* the answer of a generated question: the option its index points at
AnswerOf(q) == q.options[q.correct + 1]

LowerAnswers(questions) ==
    {Lower(AnswerOf(questions[k])) : k \in 1..Len(questions)}

UniqueAnswers(questions) ==
    \A a, b \in 1..Len(questions) :
        a # b => Lower(AnswerOf(questions[a])) # Lower(AnswerOf(questions[b]))

Sequential(g) == g.quiz_type \in {"mcq", "fill_blanks"}

\* C14: in generate_quiz's mcq branch and in generate_fill_blanks no two
\* questions have the same answer up to case, used_answers is the set of the
\* lowercased answers of the questions accepted so far, and an answer that is
\* accepted was not in used_answers before.
C14_SequentialAnswersUnique ==
    [][Sequential(gen')
         => /\ UniqueAnswers(gen'.questions)
            /\ gen'.used_answers = LowerAnswers(gen'.questions)
            /\ Len(gen'.questions) > Len(gen.questions)
                 => Lower(AnswerOf(gen'.questions[Len(gen'.questions)]))
                       \notin gen.used_answers]_vars

\* the mcq branch took Oslo from the first sentence and Paris from the second
C14_Witness ==
    /\ GenAt("done")
    /\ gen.quiz_type = "mcq"
    /\ Len(gen.ret.val) = 2
    /\ gen.used_answers = {"oslo", "paris"}

\* C15: the questions generate_mcq_questions collects, and so the ones it
\* returns, have pairwise different correct answers up to case, however the
\* activations of process_sentence are scheduled.
C15_ParallelAnswersUnique ==
    gen.fn = "generate_mcq_questions"
      => \A a, b \in 1..Len(gen.questions) :
            a # b => Lower(gen.questions[a].correct_answer)
                       # Lower(gen.questions[b].correct_answer)

RECURSIVE ResultsFrom(_, _)
\* the questions of the finished activations, in the order of their sentences
ResultsFrom(futures, k) ==
    IF k > Len(futures) THEN <<>>
    ELSE (IF futures[k].result.some THEN <<futures[k].result.val>> ELSE <<>>)
         \o ResultsFrom(futures, k + 1)

\* C16: what generate_mcq_questions returns for a text of one chunk does not
\* depend on the order in which the activations finish: it is the questions
\* of the first num_questions sentences that gave one, in sentence order.
C16_CompletionOrderIrrelevant ==
    (/\ gen.fn = "generate_mcq_questions"
     /\ GenAt("done")
     /\ gen.ret.some
     /\ Len(gen.sentences) <= ChunkLimit)
      => gen.ret.val = Take(ResultsFrom(gen.futures, 1), gen.num_questions)

\* C17: generate_quiz never returns fewer than num_questions questions: a
\* text that yields fewer ends the call with an error instead.
C17_NeverShort ==
    (gen.fn = "generate_quiz" /\ GenAt("done") /\ gen.ret.some)
      => Len(gen.ret.val) >= gen.num_questions

\* C18: generate_distractors returns, for every answer and context, three
\* entries that differ from one another and of which none is the answer up to
\* case; it raises nothing.
C18_ThreeDistractors ==
    (gen.fn = "generate_distractors" /\ GenAt("done"))
      => /\ gen.raised = ""
         /\ gen.ret.some
         /\ Len(gen.ret.val) = 3
         /\ Distinct(gen.ret.val)
         /\ \A k \in 1..Len(gen.ret.val) : Lower(gen.ret.val[k]) # Lower(gen.word)

(***************************************************************************)
(* The scoring rule (SpecRule).                                            *)
(***************************************************************************)
\* int(submitted) for the answers of the inputs
OptionIndex(a) ==
    CASE a = "0" -> 0
      [] a = "1" -> 1
      [] a = "2" -> 2
      [] a = "3" -> 3
      [] OTHER -> 0 - 1

\* the rule: the option index for mcq and true_false questions, the accepted
\* answer (the only option) up to case for fill_blanks questions
RuleCorrect(q, a) ==
    IF q.type \in {"mcq", "true_false"}
    THEN OptionIndex(a) = q.correct
    ELSE Lower(a) = Lower(q.options[1])

RuleScore(questions, answers) ==
    Cardinality({i \in 1..Len(questions) : RuleCorrect(questions[i], answers[i])})

\* C19: submit_quiz with one answer per question succeeds and marks an mcq or
\* true_false answer correct exactly when it is the question's correct index,
\* a fill_blanks answer exactly when it is the accepted answer up to case;
\* score counts the correct answers, score_percentage is score / number of
\* questions * 100.
C19_ScoringRule ==
    [][\A c \in Codes, s \in Students, a \in RuleAnswers :
          (/\ SubmitQuiz(c, s, a)
           /\ GetQuiz(c).some
           /\ Len(a) = Len(quizzes[c].questions))
             => /\ res'.raised = ""
                /\ \A i \in 1..Len(a) :
                      res'.ret.val.feedback[i].correct
                        = RuleCorrect(quizzes[c].questions[i], a[i])
                /\ res'.ret.val.score = RuleScore(quizzes[c].questions, a)
                /\ res'.ret.val.score_percentage
                      = ScorePercentage(RuleScore(quizzes[c].questions, a),
                                        Len(quizzes[c].questions))]_vars

(***************************************************************************)
(* The normalized text (SpecClean).                                        *)
(***************************************************************************)
Allowed(c) == IsAlnumChar(c) \/ IsSpace(c) \/ c \in {".", ",", "!", "?", "-"}

Normalized(text) ==
    /\ \A k \in 1..Len(text) : Allowed(text[k])
    /\ \A k \in 1..Len(text) : IsSpace(text[k]) => text[k] = " "
    /\ \A k \in 1..(Len(text) - 1) : ~(IsSpace(text[k]) /\ IsSpace(text[k + 1]))

\* C20: what either clean_text returns holds only alphanumeric characters,
\* whitespace and . , ! ? - and has no two whitespace characters in a row,
\* every run being one space; process_uploaded_file returns no empty text.
C20_CleanTextNormalized ==
    (/\ gen.fn \in {"file_handler.clean_text", "quiz_generator.clean_text",
                    "process_uploaded_file"}
     /\ GenAt("done")
     /\ gen.ret.some)
      => /\ Normalized(gen.ret.val)
         /\ gen.fn = "process_uploaded_file" => gen.ret.val # <<>>

(***************************************************************************)
(* The sentences the mcq strategy accepts (SpecGen).                       *)
(***************************************************************************)
\* the words a sentence offers when nothing was used yet
Eligible(tagged) ==
    {Lower(ImportantWords(tagged, {})[k].word) :
        k \in 1..Len(ImportantWords(tagged, {}))}

\* the sentences of a text that yield a question whatever the other
\* sentences used: they have a word that no other sentence offers
Yielding(text) ==
    {k \in 1..Len(text) :
        \E w \in Eligible(text[k]) :
            \A j \in (1..Len(text)) \ {k} : w \notin Eligible(text[j])}

\* C21: the mcq strategy never returns more than num_questions questions,
\* and returns exactly num_questions whenever the text has at least
\* num_questions sentences that can each yield a question, wherever they
\* stand in the text.
C21_McqAcceptsAnywhere ==
    (/\ gen.fn = "generate_quiz"
     /\ gen.quiz_type = "mcq"
     /\ GenAt("done")
     /\ gen.ret.some)
      => /\ Len(gen.ret.val) <= gen.num_questions
         /\ Cardinality(Yielding(gen.text)) >= gen.num_questions
              => Len(gen.ret.val) = gen.num_questions

(***************************************************************************)
(* The padding of the distractors (SpecObj).                               *)
(***************************************************************************)
\* C22: with k < 3 candidate words in the context, generate_distractors
\* returns the k candidates followed by the first 3 - k of "Not {answer}",
\* "None of the above", "All of the above"; an empty context yields these
\* three in this order.
C22_PaddedDistractors ==
    (/\ gen.fn = "generate_distractors"
     /\ GenAt("done")
     /\ gen.ret.some
     /\ Cardinality(Candidates(gen.word, gen.sentences[1])) < 3)
      => LET k == Cardinality(Candidates(gen.word, gen.sentences[1]))
         IN  /\ Len(gen.ret.val) = 3
             /\ {gen.ret.val[j] : j \in 1..k}
                  = Candidates(gen.word, gen.sentences[1])
             /\ \A j \in 1..(3 - k) :
                   gen.ret.val[k + j] = BasicDistractors(gen.word)[j]

(***************************************************************************)
(* The word the fill-in-blank strategy blanks (SpecGen).                   *)
(***************************************************************************)
\* C23: a fill-in-blank question takes as its answer the first eligible token
\* of the scanned sentence, blanks the first occurrence of that word only,
\* has the word as its sole option, and the word joins used_answers.
C23_FirstEligibleBlanked ==
    [][(/\ GenAt("fb_for")
        /\ Len(gen'.questions) = Len(gen.questions) + 1)
         => LET tagged == gen.sentences[gen.i]
                first == ImportantWords(tagged, gen.used_answers)[1].word
                q == gen'.questions[Len(gen'.questions)]
            IN  /\ q.options = <<first>>
                /\ q.question = BlankFirst(tagged, first)
                /\ gen'.used_answers = gen.used_answers \cup {Lower(first)}]_vars

(***************************************************************************)
(* The statements of the true/false strategy (SpecGen).                    *)
(***************************************************************************)
\* a sentence with one token of the antonyms table replaced by its antonym,
\* or the sentence itself when it has no such token
Falsified(tagged) ==
    IF Replaceable(tagged) = {} THEN {WordsOf(tagged)}
    ELSE {[WordsOf(tagged) EXCEPT ![k] = Antonyms(Lower(tagged[k].word)).val] :
            k \in Replaceable(tagged)}

\* C24: the true/false strategy emits one question per sentence of the first
\* num_questions sentences, with correct in {0, 1}; a question marked true (0)
\* is its source sentence, a question marked false (1) is its source sentence
\* with one adjective, adverb or verb replaced by its antonym, or the sentence
\* itself when it has no such token.
C24_TrueFalseStatements ==
    (/\ \/ gen.fn = "generate_quiz" /\ gen.quiz_type = "true_false"
        \/ gen.fn = "generate_true_false_questions"
     /\ GenAt("done")
     /\ gen.ret.some)
      => /\ Len(gen.ret.val) = Len(Take(gen.text, gen.num_questions))
         /\ \A k \in 1..Len(gen.ret.val) :
               /\ gen.ret.val[k].correct \in {0, 1}
               /\ gen.ret.val[k].correct = 0
                    => gen.ret.val[k].question = WordsOf(gen.text[k])
               /\ gen.ret.val[k].correct = 1
                    => gen.ret.val[k].question \in Falsified(gen.text[k])

(***************************************************************************)
(* Termination of the generation calls (SpecLive).                         *)
(***************************************************************************)
GenBusy == gen.pc \notin {"idle", "done"}

\* an option-filling loop that still needs an option has a filler left
FillerAvailable ==
    /\ (gen.pc \in {"mcq_fill", "mcq_refill"} /\ Len(gen.options) < 4)
         => \E generic \in Elems(GenericOptions(TagPrefix(gen.tag))) :
               generic \notin Elems(gen.options)
    /\ \A k \in 1..Len(gen.futures) :
          (Running(k) /\ gen.futures[k].pc = "fill"
                      /\ Len(gen.futures[k].options) < 4)
            => \E generic \in Elems(QuickOptions(gen.futures[k].tag)) :
                  generic \notin Elems(gen.futures[k].options)

\* C25: every generation call ends, by a return or by an exception; an mcq
\* loop that fills the options up to 4 always has a filler that the options
\* do not hold yet, so it ends once the draws stop repeating used fillers.
C25_CallsTerminate ==
    /\ [](FillerAvailable)
    /\ GenBusy ~> GenAt("done")

\* a question of generate_quiz whose options took a filler in each loop
C25_Witness ==
    /\ gen.fn = "generate_quiz"
    /\ gen.quiz_type = "mcq"
    /\ GenAt("done")
    /\ gen.ret.some
    /\ Len(gen.ret.val) = 1
    /\ Cardinality(Elems(gen.ret.val[1].options)
                     \cap Elems(GenericOptions(TagPrefix(gen.tag)))) = 2

(***************************************************************************)
(* What a refused submission leaves in the store (SpecScore).              *)
(***************************************************************************)
\* C26: a submit_quiz that fails with "Quiz not found" or with the answer
\* count error leaves the store as it was: the submissions map and the quiz's
\* own list get no entry, and get_quiz_responses and get_quiz_stats answer
\* as before the call.
C26_FailedSubmitStoresNothing ==
    [][\A c \in Codes, s \in Students, a \in ScoreAnswers :
          (/\ SubmitQuiz(c, s, a)
           /\ res'.raised \in {NotFoundError, MismatchError})
             => /\ submissions' = submissions
                /\ quizzes' = quizzes
                /\ Responses(submissions', c) = Responses(submissions, c)
                /\ Stats(quizzes', submissions', c, now')
                     = Stats(quizzes, submissions, c, now)]_vars

(***************************************************************************)
(* The attempts counter and the stored submissions (SpecScore).            *)
(***************************************************************************)
\* C27: for every active quiz total_attempts is the number of submissions
\* stored for its code, in the submissions map and in the quiz's own list, so
\* get_quiz_stats reports the quiz's total_attempts; a quiz that create_quiz
\* has just made has no stored submission.
C27_AttemptsCountStored ==
    /\ \A c \in DOMAIN quizzes :
          Lookup(quizzes, c, now).some
            => /\ quizzes[c].total_attempts = Len(Responses(submissions, c))
               /\ quizzes[c].total_attempts = Len(quizzes[c].submissions)
               /\ Stats(quizzes, submissions, c, now)[2].some
                    => Stats(quizzes, submissions, c, now)[2].val.total_attempts
                         = quizzes[c].total_attempts
    /\ res.op = "create_quiz"
          => /\ Responses(submissions, res.code) = <<>>
             /\ quizzes[res.code].submissions = <<>>

====
